---- MODULE Spec2Model ----
(***************************************************************************)
(* Model of the follow-up / retrieval / orchestration layer of             *)
(* gvarun01/legal-adviser:                                                 *)
(*   src/src/lib/semantic-search.ts        vector store cache, retrieval   *)
(*   src/unnamed/part_001 (api-wrapper.ts) strategy selection, batch gate  *)
(*   src/src/lib/langchain-api-services.ts LangChain and legacy services   *)
(*                                                                         *)
(* Text is a sequence of character codes.  Scores are integers in tenths   *)
(* (6 stands for 0.6).                                                     *)
(***************************************************************************)
EXTENDS Integers, Sequences, FiniteSets, TLC

(* ------------------------------ bounds --------------------------------- *)
\* number of distinct single-use clauses available to fill the cache
NumFillers == 11
\* concurrent createClauseVectorStore calls suspended at an await
MaxInFlight == 2
\* completed builds of the re-usable inputs 1..NumSpecial
MaxSpecialBuilds == 3
\* rejected builds plus cache clears in one run
MaxEvents == 1
\* updateAPIConfig calls in one run
MaxUpdates == 1
\* largest similarity score (in tenths) the index reports
ScoreMax == 8
\* largest maxResults option a direct caller of the retriever passes
MaxResultsBound == 3
\* longest array passed to a validator
MaxItems == 2

(* --------------------------- text helpers ------------------------------ *)
Min(a, b) == IF a <= b THEN a ELSE b

Rep(c, n) == [i \in 1..n |-> c]

\* String.prototype.slice(0, n) for n >= 0
Slice0(s, n) == SubSeq(s, 1, Min(Len(s), n))

\* characters outside Latin-1 make btoa throw InvalidCharacterError
IsLatin1(s) == \A i \in 1..Len(s) : s[i] <= 255

\* base64 is injective on Latin-1 strings; the encoded text is modelled by
\* a tagged copy of the input, which keeps exactly that property
Btoa(s) == <<"b64", s>>

\* JSON.stringify(analysisData) for texts that need no escaping
JsonStringify(f) ==
  LET Open == <<123, 34, 115, 105, 109, 112, 108, 105, 102, 105, 101, 100, 69, 120, 112, 108, 97,
                110, 97, 116, 105, 111, 110, 34, 58, 34>>
      Terms == <<34, 44, 34, 114, 105, 115, 107, 121, 84, 101, 114, 109, 115, 34, 58, 91>>
      Articles == <<93, 44, 34, 103, 111, 118, 101, 114, 110, 109, 101, 110, 116, 65, 114, 116,
                    105, 99, 108, 101, 115, 34, 58, 91>>
      Close == <<93, 125>>
      TermA == <<123, 34, 116, 101, 114, 109, 34, 58, 34>>
      TermB == <<34, 44, 34, 115, 101, 118, 101, 114, 105, 116, 121, 34, 58, 34>>
      TermC == <<34, 44, 34, 101, 120, 112, 108, 97, 110, 97, 116, 105, 111, 110, 34, 58, 34>>
      ObjClose == <<34, 125>>
      ArtA == <<123, 34, 116, 105, 116, 108, 101, 34, 58, 34>>
      ArtB == <<34, 44, 34, 117, 114, 108, 34, 58, 34>>
      ArtC == <<34, 44, 34, 114, 101, 108, 101, 118, 97, 110, 99, 101, 34, 58, 34>>
      Term(t) == TermA \o t.term \o TermB \o t.severity \o TermC \o t.explanation \o ObjClose
      Article(a) == ArtA \o a.title \o ArtB \o a.url \o ArtC \o a.relevance \o ObjClose
      RECURSIVE JoinComma(_)
      JoinComma(ss) ==
        IF Len(ss) = 0 THEN <<>>
        ELSE IF Len(ss) = 1 THEN ss[1]
        ELSE ss[1] \o <<44>> \o JoinComma(Tail(ss))
  IN Open \o f.simplifiedExplanation
       \o Terms \o JoinComma([i \in 1..Len(f.riskyTerms) |-> Term(f.riskyTerms[i])])
       \o Articles
       \o JoinComma([i \in 1..Len(f.governmentArticles) |-> Article(f.governmentArticles[i])])
       \o Close

(* ------------------------------ inputs --------------------------------- *)
\* inputs 1..NumSpecial can be passed any number of times; inputs
\* NumSpecial+1 .. NumSpecial+NumFillers are pairwise different short
\* clauses, each passed once, in index order
SpecialInputs == {1, 2, 3, 4, 5}
NumSpecial == Cardinality(SpecialInputs)
\* one more input, retrieved from but not built in the cache
\* specifications: a clause whose explanation repeats it word for word
EchoInput == NumSpecial + NumFillers + 1
Inputs == 1..(NumSpecial + NumFillers + 1)

SevHigh == <<104, 105, 103, 104>>

\* 1: 101-character clause; 2: another clause with the same first 100
\* characters; 3: clause of 1 with other risky terms and references;
\* 4: clause of 1 with another explanation; 5: a clause that starts with a
\* typographic quote (U+201C)
InputClause(i) ==
  LET LongPrefix == Rep(97, 100)
  IN CASE i = 1 -> LongPrefix \o <<120>>
       [] i = 2 -> LongPrefix \o <<121>>
       [] i = 3 -> LongPrefix \o <<120>>
       [] i = 4 -> LongPrefix \o <<120>>
       [] i = 5 -> <<8220, 97>>
       [] i = EchoInput -> Rep(101, 24)
       [] OTHER -> <<160 + i>>

InputFacets(i) ==
  LET TermT == [term |-> <<116>>, severity |-> SevHigh, explanation |-> <<114>>]
      ArticleA ==
        [title |-> <<84>>, url |-> <<104, 116, 116, 112, 115, 58, 47, 47, 97, 46, 105, 110>>,
         relevance |-> <<82>>]
      FacetsPlain ==
        [simplifiedExplanation |-> Rep(101, 24), riskyTerms |-> <<>>, governmentArticles |-> <<>>]
      FacetsRich ==
        [simplifiedExplanation |-> Rep(101, 24), riskyTerms |-> <<TermT>>,
         governmentArticles |-> <<ArticleA>>]
      FacetsOther ==
        [simplifiedExplanation |-> <<102>> \o Rep(101, 23), riskyTerms |-> <<TermT>>,
         governmentArticles |-> <<>>]
      FacetsEmpty ==
        [simplifiedExplanation |-> <<>>, riskyTerms |-> <<>>, governmentArticles |-> <<>>]
  IN CASE i = 1 -> FacetsPlain
       [] i = 2 -> FacetsPlain
       [] i = 3 -> FacetsRich
       [] i = 4 -> FacetsOther
       [] i = 5 -> FacetsPlain
       [] i = EchoInput -> FacetsPlain
       [] OTHER -> FacetsEmpty

SameInput(i, j) == InputClause(i) = InputClause(j) /\ InputFacets(i) = InputFacets(j)

(* ------------------------- semantic-search.ts -------------------------- *)
MaxCacheSize == 10
ClauseKeyLen == 100
AnalysisKeyLen == 50
ChunkSize == 200

\* generateCacheKey, defined when both btoa calls succeed
generateCacheKey(clause, facets) ==
  <<Btoa(Slice0(clause, ClauseKeyLen)), Btoa(Slice0(JsonStringify(facets), AnalysisKeyLen))>>

KeyThrows(clause, facets) ==
  \/ ~IsLatin1(Slice0(clause, ClauseKeyLen))
  \/ ~IsLatin1(Slice0(JsonStringify(facets), AnalysisKeyLen))

\* the keys of the inputs, computed once
KeyTable == [i \in Inputs |-> generateCacheKey(InputClause(i), InputFacets(i))]
KeyOf(i) == KeyTable[i]
ThrowsTable == [i \in Inputs |-> KeyThrows(InputClause(i), InputFacets(i))]

\* a splitter that returns the empty text as a chunk
splitTextKeepingEmpty(text) == <<Slice0(text, ChunkSize)>>

\* RecursiveCharacterTextSplitter.splitText for a text that fits in one
\* chunk (every text of the model is shorter than ChunkSize): the text
\* itself, or no chunk for the empty text
splitText(text) == IF Len(text) = 0 THEN <<>> ELSE <<Slice0(text, ChunkSize)>>

\* the chunk list createClauseVectorStore assembles for one input: the
\* chunks of the clause, those of the explanation if there is one, a
\* sentence for each risky term and a sentence for each legal reference
BuildChunks(clause, f) ==
  LET RiskyA == <<82, 105, 115, 107, 121, 32, 84, 101, 114, 109, 58, 32, 34>>
      RiskyB == <<34, 32, 40>>
      RiskyC == <<32, 115, 101, 118, 101, 114, 105, 116, 121, 41, 32, 45, 32>>
      ArtA == <<76, 101, 103, 97, 108, 32, 65, 114, 116, 105, 99, 108, 101, 58, 32, 34>>
      ArtB == <<34, 32, 45, 32>>
      OriginalChunks ==
        [k \in 1..Len(splitText(clause)) |->
           [content |-> splitText(clause)[k], chunkIndex |-> k - 1,
            source |-> <<"original_clause">>, type |-> "original"]]
      SimplifiedChunks ==
        IF Len(f.simplifiedExplanation) = 0 THEN <<>>
        ELSE [k \in 1..Len(splitText(f.simplifiedExplanation)) |->
                [content |-> splitText(f.simplifiedExplanation)[k], chunkIndex |-> k - 1,
                 source |-> <<"simplified_explanation">>, type |-> "simplified"]]
      RiskyChunks ==
        [k \in 1..Len(f.riskyTerms) |->
           [content |-> RiskyA \o f.riskyTerms[k].term \o RiskyB \o f.riskyTerms[k].severity
                          \o RiskyC \o f.riskyTerms[k].explanation,
            chunkIndex |-> k - 1,
            source |-> <<"risky_term_", f.riskyTerms[k].term>>, type |-> "risky_terms"]]
      ArticleChunks ==
        [k \in 1..Len(f.governmentArticles) |->
           [content |-> ArtA \o f.governmentArticles[k].title \o ArtB
                          \o f.governmentArticles[k].relevance,
            chunkIndex |-> k - 1,
            source |-> <<"gov_article_", k - 1>>, type |-> "government_articles"]]
  IN OriginalChunks \o SimplifiedChunks \o RiskyChunks \o ArticleChunks

\* a VectorStoreData object: the input it was built from, the serial number
\* that tells apart two objects built from the same input, and the API key
\* its embeddings instance was created with
NoHandle == [src |-> 0, id |-> 0, key |-> "-"]
ChunksTable == [i \in Inputs |-> BuildChunks(InputClause(i), InputFacets(i))]
ChunksOf(h) == ChunksTable[h.src]

\* the key a direct caller passes (the key getGeminiApiKey finds when one
\* is stored), the key the wrapper passes, and the result of
\* getGeminiApiKey when no key is stored
UserKey == "K"
EmptyKey == ""
NoKey == "null"


(* ---------------------- retrieveRelevantContext ------------------------ *)
DefaultMaxResults == 3
DefaultThreshold == 7
FollowupMaxResults == 3
FollowupThreshold == 6

\* an option the caller left out
Undef == -1
OptOr(v, d) == IF v = Undef THEN d ELSE v

Scores == (FollowupThreshold - 1)..ScoreMax

\* the stored documents ranked by descending similarity, equal scores in
\* insertion order
RECURSIVE RankDesc(_, _)
RankDesc(S, sc) ==
  IF S = {} THEN <<>>
  ELSE LET m == CHOOSE i \in S : \A j \in S : sc[i] > sc[j] \/ (sc[i] = sc[j] /\ i <= j)
       IN <<m>> \o RankDesc(S \ {m}, sc)

\* vectorStore.similaritySearchWithScore(question, k) when the query
\* succeeds: sc gives the similarity of each stored document to the question
similaritySearchWithScore(chunks, sc, k) ==
  LET r == RankDesc(1..Len(chunks), sc)
  IN [n \in 1..Min(k, Len(chunks)) |->
        [pageContent |-> chunks[r[n]].content,
         metadata |-> [chunkIndex |-> chunks[r[n]].chunkIndex, source |-> chunks[r[n]].source,
                       type |-> chunks[r[n]].type],
         score |-> sc[r[n]]]]

\* the filter left out
FilterByThresholdKeepAll(results, threshold) == results

\* .filter(([_, score]) => score >= relevanceThreshold)
FilterByThreshold(results, threshold) ==
  LET Keep(x) == x.score >= threshold IN SelectSeq(results, Keep)

\* vectorStoreData.chunks.find(chunk => chunk.content === document.pageContent)
FindChunk(chunks, content) ==
  IF \E n \in 1..Len(chunks) : chunks[n].content = content
  THEN CHOOSE n \in 1..Len(chunks) :
         /\ chunks[n].content = content
         /\ \A m \in 1..(n - 1) : chunks[m].content # content
  ELSE 0

\* the .map callback: the stored chunk with the document's text, scored
ToRelevantChunk(chunks, x) ==
  LET n == FindChunk(chunks, x.pageContent)
  IN IF n # 0
     THEN [content |-> chunks[n].content, chunkIndex |-> chunks[n].chunkIndex,
           source |-> chunks[n].source, type |-> chunks[n].type, relevanceScore |-> x.score]
     ELSE [content |-> x.pageContent, chunkIndex |-> 0, source |-> <<"unknown">>,
           type |-> "original", relevanceScore |-> x.score]

\* a map callback that writes the score onto the stored chunk it found
ChunksAfterMapAssigning(chunks, results) ==
  [n \in 1..Len(chunks) |->
     IF \E k \in 1..Len(results) : FindChunk(chunks, results[k].content) = n
     THEN [f \in (DOMAIN chunks[n]) \cup {"relevanceScore"} |->
             IF f = "relevanceScore"
             THEN results[CHOOSE k \in 1..Len(results) :
                            FindChunk(chunks, results[k].content) = n].relevanceScore
             ELSE chunks[n][f]]
     ELSE chunks[n]]

\* vectorStoreData.chunks after the map callback ran over the results: the
\* callback spreads chunkData and its metadata into new objects, the
\* stored chunks are not written
ChunksAfterMap(chunks, results) == chunks

\* the search results that pass the filter and the slice
KeptResults(chunks, sc, maxResults, threshold) ==
  Slice0(FilterByThreshold(similaritySearchWithScore(chunks, sc, maxResults * 2), threshold),
         maxResults)

RelevantResults(chunks, sc, maxResults, threshold) ==
  LET kept == KeptResults(chunks, sc, maxResults, threshold)
  IN [n \in 1..Len(kept) |-> ToRelevantChunk(chunks, kept[n])]

\* Array.prototype.join
RECURSIVE Join(_, _)
Join(ss, sep) ==
  IF Len(ss) = 0 THEN <<>>
  ELSE IF Len(ss) = 1 THEN ss[1]
  ELSE ss[1] \o sep \o Join(Tail(ss), sep)

\* the callback of the contextSummary map:
\* `${index + 1}. ${prefix}${chunk.content}` with the prefix
\* `[${chunk.metadata.type.toUpperCase()}] ` when includeMetadata is set
SummaryEntry(chunk, index, includeMetadata) ==
  LET RECURSIVE Digits(_)
      Digits(n) == IF n < 10 THEN <<48 + n>> ELSE Digits(n \div 10) \o <<48 + (n % 10)>>
      TypeText == CASE chunk.type = "original" -> <<111, 114, 105, 103, 105, 110, 97, 108>>
                    [] chunk.type = "simplified" -> <<115, 105, 109, 112, 108, 105, 102, 105, 101, 100>>
                    [] chunk.type = "risky_terms" -> <<114, 105, 115, 107, 121, 95, 116, 101, 114, 109, 115>>
                    [] chunk.type = "government_articles" ->
                         <<103, 111, 118, 101, 114, 110, 109, 101, 110, 116, 95, 97, 114, 116, 105, 99, 108, 101, 115>>
      ToUpperCase(t) == [k \in 1..Len(t) |-> IF t[k] \in 97..122 THEN t[k] - 32 ELSE t[k]]
      prefix == IF includeMetadata THEN <<91>> \o ToUpperCase(TypeText) \o <<93, 32>> ELSE <<>>
  IN Digits(index + 1) \o <<46, 32>> \o prefix \o chunk.content

(* JavaScript numbers are IEEE-754 binary64 values.  A non-negative number
   below 4 is written here in units of 2^-53 as hi * 2^27 + lo with
   0 <= lo < 2^27, so that every intermediate result stays a 32-bit integer:
   the values in [1/2, 1) are the whole units from 2^52 on, those in [1, 2)
   the even ones, those in [2, 4) the multiples of four. *)

\* the `/` of two numbers whose quotient lies in [1/2, 1]: the quotient
\* rounded to the nearest unit, ties to the even one
DblDiv(a, n) ==
  LET B == 134217728
      t == (a.hi % n) * B + a.lo
      q == [hi |-> a.hi \div n, lo |-> t \div n]
      r == t % n
      up == 2 * r > n \/ (2 * r = n /\ q.lo % 2 = 1)
  IN IF ~up THEN q
     ELSE IF q.lo + 1 = B THEN [hi |-> q.hi + 1, lo |-> 0]
     ELSE [hi |-> q.hi, lo |-> q.lo + 1]

\* the number a score or a threshold of k tenths denotes: the binary64
\* value nearest to k/10 (5 <= k <= 10)
Dbl(k) == DblDiv([hi |-> k * 67108864, lo |-> 0], 10)

\* the `+` of two numbers: the exact sum rounded to the grid of its
\* binade, ties to even
DblAdd(a, b) ==
  LET B == 134217728
      l == a.lo + b.lo
      hi == a.hi + b.hi + (l \div B)
      lo == l % B
      g == IF hi < 67108864 THEN 1 ELSE IF hi < B THEN 2 ELSE 4
      rem == lo % g
      down == lo - rem
      rounded == IF 2 * rem < g THEN down
                 ELSE IF 2 * rem > g THEN down + g
                 ELSE IF (down \div g) % 2 = 0 THEN down ELSE down + g
  IN IF rounded = B THEN [hi |-> hi + 1, lo |-> 0] ELSE [hi |-> hi, lo |-> rounded]

\* relevantResults.reduce((sum, chunk) => sum + (chunk.metadata.relevanceScore || 0), 0)
RECURSIVE SumScores(_)
SumScores(cs) ==
  IF Len(cs) = 0 THEN [hi |-> 0, lo |-> 0]
  ELSE DblAdd(SumScores(SubSeq(cs, 1, Len(cs) - 1)), Dbl(cs[Len(cs)].relevanceScore))

AverageRelevanceUndivided(cs) ==
  IF Len(cs) > 0 THEN SumScores(cs) ELSE [hi |-> 0, lo |-> 0]

\* averageRelevance
AverageRelevance(cs) ==
  IF Len(cs) > 0 THEN DblDiv(SumScores(cs), Len(cs)) ELSE [hi |-> 0, lo |-> 0]

\* the value returned by the try block
RetrieveNormal(chunks, sc, maxResults, threshold, includeMetadata) ==
  LET relevantResults == RelevantResults(chunks, sc, maxResults, threshold)
  IN [kind |-> "ok",
      relevantChunks |-> relevantResults,
      contextSummary |->
        Join([n \in 1..Len(relevantResults) |->
                SummaryEntry(relevantResults[n], n - 1, includeMetadata)], <<10, 10>>),
      totalChunks |-> Len(chunks),
      averageRelevance |-> AverageRelevance(relevantResults)]

\* the fallback without the slice
RetrieveFallbackUnsliced(chunks, maxResults) ==
  [kind |-> "fallback",
   relevantChunks |-> chunks,
   contextSummary |-> Join([n \in 1..Len(chunks) |-> chunks[n].content], <<10, 10>>),
   totalChunks |-> Len(chunks),
   averageRelevance |-> [hi |-> 0, lo |-> 0]]

\* the value returned by the catch block
RetrieveFallback(chunks, maxResults) ==
  [kind |-> "fallback",
   relevantChunks |-> Slice0(chunks, maxResults),
   contextSummary |->
     Join([n \in 1..Len(Slice0(chunks, maxResults)) |-> chunks[n].content], <<10, 10>>),
   totalChunks |-> Len(chunks),
   averageRelevance |-> [hi |-> 0, lo |-> 0]]

(* --------------------------- api-wrapper.ts ---------------------------- *)
ConfigFields == {"useLangChain", "enableBatchProcessing", "enableAdvancedPrompts", "enableSemanticSearch"}

DefaultConfig ==
  [useLangChain |-> TRUE, enableBatchProcessing |-> TRUE,
   enableAdvancedPrompts |-> TRUE, enableSemanticSearch |-> TRUE]

\* object spread { ...a, ...b }
Spread(a, b) ==
  [f \in (DOMAIN a) \cup (DOMAIN b) |-> IF f \in DOMAIN b THEN b[f] ELSE a[f]]

\* localStorage item 'clause-clarity-api-config': absent, not parseable, or
\* a parsed object
NoItem == [kind |-> "absent"]
CorruptItem == [kind |-> "corrupt"]
Item(c) == [kind |-> "json", value |-> c]

\* `||` in the place of `??`
loadAPIConfigOrTrue(cfg, item) ==
  IF item.kind = "json"
  THEN Spread(Spread(cfg, item.value), [enableSemanticSearch |-> TRUE])
  ELSE cfg

\* the value of apiConfig after loadAPIConfig ran
loadAPIConfig(cfg, item) ==
  IF item.kind = "json"
  THEN Spread(Spread(cfg, item.value),
              [enableSemanticSearch |->
                 IF "enableSemanticSearch" \in DOMAIN item.value
                 THEN item.value.enableSemanticSearch ELSE TRUE])
  ELSE cfg

\* the LangChain branch tested first
SelectStrategyLangChainFirst(cfg, hasAnalysisData) ==
  IF cfg.useLangChain THEN "langchain"
  ELSE IF cfg.useLangChain /\ cfg.enableSemanticSearch /\ hasAnalysisData THEN "semantic"
  ELSE "legacy"

\* the semantic branch taken without looking at enableSemanticSearch
SelectStrategyIgnoringToggle(cfg, hasAnalysisData) ==
  IF cfg.useLangChain /\ hasAnalysisData THEN "semantic"
  ELSE IF cfg.useLangChain THEN "langchain"
  ELSE "legacy"

\* the semantic branch taken also when useLangChain is off
SelectStrategySemanticAlone(cfg, hasAnalysisData) ==
  IF cfg.enableSemanticSearch /\ hasAnalysisData THEN "semantic"
  ELSE IF cfg.useLangChain THEN "langchain"
  ELSE "legacy"

\* the strategy submitFollowupQuestion selects
SelectStrategy(cfg, hasAnalysisData) ==
  IF cfg.useLangChain /\ cfg.enableSemanticSearch /\ hasAnalysisData THEN "semantic"
  ELSE IF cfg.useLangChain THEN "langchain"
  ELSE "legacy"

\* the check of enableBatchProcessing left out
BatchGateLangChainOnly(cfg) ==
  IF ~cfg.useLangChain THEN "only_with_langchain" ELSE "pass"

\* processBatchClauses: the error thrown by the configuration checks, if any
BatchGate(cfg) ==
  IF ~cfg.useLangChain THEN "only_with_langchain"
  ELSE IF ~cfg.enableBatchProcessing THEN "batch_disabled"
  ELSE "pass"

\* BatchAnalysisDemo.handleBatchAnalysis refuses lists longer than this
BatchCeiling == 10

(* --------------- langchain-api-services.ts: validation ----------------- *)
\* A value of a parsed JSON document as the validators see it: a missing
\* property (undefined), a string (its character codes) or a number
JsUndef == [t |-> "undef", s |-> <<>>, n |-> 0]
JsStr(s) == [t |-> "str", s |-> s, n |-> 0]
JsNum(n) == [t |-> "num", s |-> <<>>, n |-> n]

\* ToBoolean
Truthy(v) == (v.t = "str" /\ Len(v.s) > 0) \/ (v.t = "num" /\ v.n # 0)

\* s without its leading and trailing characters among codes
Strip(s, codes) ==
  LET keep == {k \in 1..Len(s) : s[k] \notin codes}
  IN IF keep = {} THEN <<>>
     ELSE SubSeq(s, CHOOSE k \in keep : \A j \in keep : k <= j,
                    CHOOSE k \in keep : \A j \in keep : k >= j)

\* String.prototype.trim strips the WhiteSpace and LineTerminator code points
Trim(s) ==
  Strip(s, {9, 10, 11, 12, 13, 32, 160, 5760, 8232, 8233, 8239, 8287, 12288, 65279}
             \cup (8192..8202))

\* String(v) for a truthy value: the string itself, the decimal digits of a
\* natural number
ToStr(v) ==
  LET RECURSIVE Digits(_)
      Digits(n) == IF n < 10 THEN <<48 + n>> ELSE Digits(n \div 10) \o <<48 + (n % 10)>>
  IN IF v.t = "str" THEN v.s ELSE Digits(v.n)

\* String.prototype.toLowerCase on the letters A-Z
ToLowerCase(s) == [k \in 1..Len(s) |-> IF s[k] \in 65..90 THEN s[k] + 32 ELSE s[k]]

SevModerate == <<109, 111, 100, 101, 114, 97, 116, 101>>
Severities == {SevHigh, SevModerate, <<108, 111, 119>>}

\* an element of a parsed array: an object with some of the six properties
\* the validators read (the others are undefined), or null or a number,
\* which have none
TermItem(a, b, c) ==
  [t |-> "obj", term |-> a, severity |-> b, explanation |-> c,
   title |-> JsUndef, url |-> JsUndef, relevance |-> JsUndef]
ArticleItem(a, b, c) ==
  [t |-> "obj", term |-> JsUndef, severity |-> JsUndef, explanation |-> JsUndef,
   title |-> a, url |-> b, relevance |-> c]
Primitive(t) == [TermItem(JsUndef, JsUndef, JsUndef) EXCEPT !.t = t]

\* what a validator does: it returns a list or throws a TypeError
Returned(items) == [kind |-> "ok", items |-> items]
ThrewTypeError == [kind |-> "throw", items |-> <<>>]

\* a parsed JSON document: an array of elements, or something else
JsonArr(items) == [t |-> "arr", items |-> items]
JsonOther(t) == [t |-> t, items |-> <<>>]

\* validateRiskyTerms(terms): the filter callback throws on a null element
\* (a property of null is read), the map callback throws on a severity
\* that is neither a string nor null/undefined (term.severity?.toLowerCase())
validateRiskyTerms(terms) ==
  LET Kept(x) == Truthy(x.term) /\ Truthy(x.severity) /\ Truthy(x.explanation)
      Sanitize(x) ==
        [term |-> Trim(ToStr(x.term)),
         severity |-> IF ToLowerCase(x.severity.s) \in Severities
                      THEN ToLowerCase(x.severity.s) ELSE SevModerate,
         explanation |-> Trim(ToStr(x.explanation))]
      kept == SelectSeq(terms.items, Kept)
  IN IF terms.t # "arr" THEN Returned(<<>>)
     ELSE IF \E k \in 1..Len(terms.items) : terms.items[k].t = "null" THEN ThrewTypeError
     ELSE IF \E k \in 1..Len(kept) : kept[k].severity.t = "num" THEN ThrewTypeError
     ELSE Returned([k \in 1..Len(kept) |-> Sanitize(kept[k])])

\* new URL(text) without a base, for texts without credentials, port,
\* escapes or non-ASCII host: leading and trailing C0 controls and spaces
\* are stripped, a scheme must follow, and the schemes with an authority
\* (http, https, ftp, ws, wss) need a host after the slashes: non-empty, up
\* to the first / ? or #, without a space
UrlParses(text) ==
  LET t == Strip(text, 0..32)
      colons == {k \in 1..Len(t) : t[k] = 58}
      AsciiAlpha == (65..90) \cup (97..122)
      SpecialSchemes ==
        {<<104, 116, 116, 112>>, <<104, 116, 116, 112, 115>>, <<102, 116, 112>>,
         <<119, 115>>, <<119, 115, 115>>}
      HostOk(s) ==
        LET rest == {k \in 1..Len(s) : s[k] \notin {47, 92}}
            h == IF rest = {} THEN <<>>
                 ELSE SubSeq(s, CHOOSE k \in rest : \A j \in rest : k <= j, Len(s))
        IN /\ Len(h) > 0
           /\ h[1] \notin {63, 35}
           /\ \A k \in 1..Len(h) :
                h[k] = 32 => \E j \in 1..(k - 1) : h[j] \in {47, 63, 35}
  IN /\ colons # {}
     /\ LET p == CHOOSE k \in colons : \A j \in colons : k <= j
        IN /\ p >= 2
           /\ t[1] \in AsciiAlpha
           /\ \A k \in 2..(p - 1) : t[k] \in AsciiAlpha \cup (48..57) \cup {43, 45, 46}
           /\ ToLowerCase(SubSeq(t, 1, p - 1)) \in SpecialSchemes =>
                HostOk(SubSeq(t, p + 1, Len(t)))

\* validateGovernmentArticles: the filter callback; new URL(article.url)
\* converts its argument to a string, a throw is caught
ArticleKept(x) ==
  /\ Truthy(x.title) /\ Truthy(x.url) /\ Truthy(x.relevance)
  /\ UrlParses(ToStr(x.url))

\* validateGovernmentArticles(articles)
validateGovernmentArticles(articles) ==
  LET Sanitize(x) ==
        [title |-> Trim(ToStr(x.title)), url |-> Trim(ToStr(x.url)),
         relevance |-> Trim(ToStr(x.relevance))]
      kept == SelectSeq(articles.items, ArticleKept)
  IN IF articles.t # "arr" THEN Returned(<<>>)
     ELSE IF \E k \in 1..Len(articles.items) : articles.items[k].t = "null" THEN ThrewTypeError
     ELSE Returned([k \in 1..Len(kept) |-> Sanitize(kept[k])])

\* the elements of the arrays validateRiskyTerms is called with: null, a
\* number, and objects with absent, plain, padded, blank or empty strings,
\* the severities "High" and "EXTREME", and a number as severity
RiskyInputItems ==
  {Primitive("null"), Primitive("num")}
    \cup {TermItem(a, b, c) :
            a \in {JsUndef, JsStr(<<120>>), JsStr(<<32, 120, 32>>), JsStr(<<32>>)},
            b \in {JsUndef, JsStr(<<72, 105, 103, 104>>), JsStr(<<69, 88, 84, 82, 69, 77, 69>>),
                   JsNum(5)},
            c \in {JsUndef, JsStr(<<121>>), JsStr(<<>>)}}

\* the elements of the arrays validateGovernmentArticles is called with
GoodUrl == <<104, 116, 116, 112, 115, 58, 47, 47, 97, 46, 105, 110>>
NotAUrl == <<110, 111, 116, 45, 97, 45, 117, 114, 108>>
ArticleInputItems ==
  {Primitive("null"), Primitive("num")}
    \cup {ArticleItem(a, b, c) :
            a \in {JsUndef, JsStr(<<116>>), JsStr(<<32, 116>>), JsStr(<<32>>)},
            b \in {JsUndef, JsStr(GoodUrl), JsStr(NotAUrl), JsStr(GoodUrl \o <<32>>)},
            c \in {JsUndef, JsStr(<<114>>), JsStr(<<>>)}}

\* all lists of at most n elements of S
ListsUpTo(S, n) == UNION {[1..m -> S] : m \in 0..n}

\* a validator call: the function, its argument and what it did
IdleVal == [pc |-> "idle", fn |-> "none", input |-> JsonOther("null"), out |-> Returned(<<>>)]
ValidatorInputs ==
  {[pc |-> "input", fn |-> "risky", input |-> v, out |-> Returned(<<>>)] :
     v \in {JsonOther("null"), JsonOther("obj")}
            \cup {JsonArr(l) : l \in ListsUpTo(RiskyInputItems, MaxItems)}}
  \cup
  {[pc |-> "input", fn |-> "articles", input |-> v, out |-> Returned(<<>>)] :
     v \in {JsonOther("null"), JsonOther("obj")}
            \cup {JsonArr(l) : l \in ListsUpTo(ArticleInputItems, MaxItems)}}

NoRet == [kind |-> "none", input |-> 0, h |-> NoHandle, embeds |-> 0]

ZeroAverage == [hi |-> 0, lo |-> 0]
NoResult ==
  [kind |-> "none", relevantChunks |-> <<>>, contextSummary |-> <<>>, totalChunks |-> 0,
   averageRelevance |-> ZeroAverage]
IdleRetrieve ==
  [pc |-> "idle", h |-> NoHandle, maxResults |-> 0, threshold |-> 0, meta |-> TRUE, owner |-> "none",
   kept |-> <<>>]

NoMetrics == [present |-> FALSE, chunksUsed |-> 0, totalChunks |-> 0, averageRelevance |-> ZeroAverage]
NoAnswer == [kind |-> "none", error |-> "none", contextMetrics |-> NoMetrics]
IdleFollowup ==
  [pc |-> "idle", input |-> 0, hasAnalysisData |-> FALSE, cfg |-> DefaultConfig, path |-> "none",
   calls |-> <<>>, keyLookups |-> 0, cacheAccess |-> FALSE, result |-> NoAnswer,
   errorToasts |-> 0]

\* a batch request: its size, the configuration it read, how it settled,
\* the calls, history rows and error notifications made on its behalf and
\* where its clause analyses stand
IdleBatch ==
  [pc |-> "idle", n |-> 0, cfg |-> DefaultConfig, outcome |-> "none", error |-> "none",
   keyLookups |-> 0, modelCalls |-> 0, atKey |-> 0, atModel |-> 0, finished |-> 0, failed |-> 0,
   errorToasts |-> 0, historyRows |-> 0]

(* ------------- langchain-api-services.ts: parseJSONResponse ------------ *)
\* What the library calls make of a model response: the outcome of
\* JSON.parse on the whole text (direct), on the array inside the first
\* fenced block (block), on the shortest "[ {...} ]" substring (array) and
\* on the longest one, the pattern of the legacy service (greedy). m is
\* "none" where the pattern finds nothing, "throw" where JSON.parse throws
NoMatch == [m |-> "none", v |-> JsonOther("null")]
ParseThrows == [m |-> "throw", v |-> JsonOther("null")]
Parsed(v) == [m |-> "value", v |-> v]

\* the bracket patterns find the text of a document that is an array whose
\* first and last elements are objects
Bracketed(doc) ==
  IF doc.t = "arr" /\ Len(doc.items) > 0
     /\ doc.items[1].t = "obj" /\ doc.items[Len(doc.items)].t = "obj"
  THEN Parsed(doc) ELSE NoMatch

\* a response made of the JSON text of doc:
\*   clean        that text and nothing else
\*   fenced       the text of an array inside a ``` fence
\*   prose        the text of an array with a sentence before and after it
\*   none         a sentence without any bracket
\*   broken_fence a fence around "[see below]", then the text of an array
\*   two_arrays   the text of an array twice with a sentence in between: the
\*                shortest match is the first copy, the longest match spans
\*                both and does not parse
ResponseOf(form, doc) ==
  [direct |-> IF form = "clean" THEN Parsed(doc) ELSE ParseThrows,
   block |-> CASE form = "fenced" -> Parsed(doc)
               [] form = "broken_fence" -> ParseThrows
               [] OTHER -> NoMatch,
   array |-> IF form = "none" THEN NoMatch ELSE Bracketed(doc),
   greedy |-> IF form = "none" THEN NoMatch
              ELSE IF form = "two_arrays" /\ Bracketed(doc).m = "value" THEN ParseThrows
              ELSE Bracketed(doc)]

\* parseJSONResponse(response, fallback)
parseJSONResponse(response, fallback) ==
  IF response.direct.m = "value" THEN response.direct.v
  ELSE IF response.block.m # "none"
       THEN IF response.block.m = "value" THEN response.block.v ELSE fallback
  ELSE IF response.array.m # "none"
       THEN IF response.array.m = "value" THEN response.array.v ELSE fallback
  ELSE fallback

(* ------------------ api-services.ts: the legacy parsing ---------------- *)
\* the risky terms the legacy analyzeClause makes of a response: the
\* longest bracket match or '[]' is parsed and mapped, with [] for
\* whatever throws (a null element, a severity without toLowerCase)
LegacyRiskyTerms(response) ==
  LET items == IF response.greedy.m = "value" THEN response.greedy.v.items ELSE <<>>
      Term(x) ==
        [term |-> IF Truthy(x.term) THEN x.term ELSE JsStr(<<>>),
         severity |-> IF x.severity.t = "str" /\ ToLowerCase(x.severity.s) \in Severities
                      THEN JsStr(ToLowerCase(x.severity.s)) ELSE JsStr(SevModerate),
         explanation |-> IF Truthy(x.explanation) THEN x.explanation ELSE JsStr(<<>>)]
  IN IF response.greedy.m = "throw" THEN <<>>
     ELSE IF \E k \in 1..Len(items) : items[k].t = "null" \/ items[k].severity.t = "num"
     THEN <<>>
     ELSE [k \in 1..Len(items) |-> Term(items[k])]

\* the legal references the legacy analyzeClause makes of a response: the
\* whole text is parsed, or else the longest bracket match if there is one,
\* then filtered and mapped, with [] for whatever throws (no array, a null
\* element, trim() on a value that is no string)
LegacyArticles(response) ==
  LET doc == IF response.direct.m = "value" THEN response.direct.v
             ELSE IF response.greedy.m = "value" THEN response.greedy.v
             ELSE JsonArr(<<>>)
      kept == SelectSeq(doc.items, ArticleKept)
      Article(x) ==
        [title |-> Trim(x.title.s), url |-> Trim(x.url.s), relevance |-> Trim(x.relevance.s)]
  IN IF response.direct.m # "value" /\ response.greedy.m = "throw" THEN <<>>
     ELSE IF doc.t # "arr" THEN <<>>
     ELSE IF \E k \in 1..Len(doc.items) : doc.items[k].t = "null" THEN <<>>
     ELSE IF \E k \in 1..Len(kept) :
               kept[k].title.t # "str" \/ kept[k].url.t # "str" \/ kept[k].relevance.t # "str"
     THEN <<>>
     ELSE [k \in 1..Len(kept) |-> Article(kept[k])]

(* ------------------- analyzeClause: requests and answers --------------- *)
\* the three requests of one analysis
FacetNames == {"simplification", "riskyTerms", "governmentArticles"}

\* the joint promise settling only when every request has settled
PromiseAllSettled(req) ==
  IF \E f \in FacetNames : req[f] = "pending" THEN "pending"
  ELSE IF \E f \in FacetNames : req[f] = "rejected" THEN "rejected"
  ELSE "resolved"

\* Promise.all over the three requests: rejected with the first rejection,
\* fulfilled when every request is fulfilled
PromiseAll(req) ==
  IF \E f \in FacetNames : req[f] = "rejected" THEN "rejected"
  ELSE IF \A f \in FacetNames : req[f] = "resolved" THEN "resolved"
  ELSE "pending"

\* the answers a request can get: an explanation, plain or padded; for the
\* two lists a well-formed array in each form of response, and clean
\* responses with an array that has an unknown severity and an item
\* without explanation (a malformed URL and a padded title), a null item,
\* a number as severity (as title), no item, or no array at all
ResponsesTo(f) ==
  LET x == JsStr(<<120>>)
      y == JsStr(<<121>>)
      t == JsStr(<<116>>)
      r == JsStr(<<114>>)
      goodTerms == JsonArr(<<TermItem(x, JsStr(<<72, 105, 103, 104>>), y)>>)
      goodArticles == JsonArr(<<ArticleItem(t, JsStr(GoodUrl), r)>>)
      forms == {"clean", "fenced", "prose", "none", "broken_fence", "two_arrays"}
  IN CASE f = "simplification" -> {<<101>>, <<32, 101, 10>>}
       [] f = "riskyTerms" ->
            {ResponseOf(form, goodTerms) : form \in forms}
              \cup {ResponseOf("clean", d) :
                      d \in {JsonArr(<<TermItem(x, JsStr(<<69, 88, 84, 82, 69, 77, 69>>), y),
                                       TermItem(x, JsStr(<<108, 111, 119>>), JsUndef)>>),
                             JsonArr(<<Primitive("null")>>),
                             JsonArr(<<TermItem(x, JsNum(5), y)>>),
                             JsonArr(<<>>), JsonOther("obj")}}
       [] f = "governmentArticles" ->
            {ResponseOf(form, goodArticles) : form \in {"clean", "fenced", "none", "broken_fence"}}
              \cup {ResponseOf("clean", d) :
                      d \in {JsonArr(<<ArticleItem(t, JsStr(NotAUrl), r),
                                       ArticleItem(JsStr(<<32, 116>>), JsStr(GoodUrl), r)>>),
                             JsonArr(<<Primitive("null")>>),
                             JsonArr(<<ArticleItem(JsNum(5), JsStr(GoodUrl), r)>>),
                             JsonOther("null")}}

NoAnalysis == [simplifiedExplanation |-> <<>>, riskyTerms |-> <<>>, governmentArticles |-> <<>>]

\* the facets an implementation makes of the three answers. LangChain
\* ("Parse and validate responses"): the result object or the TypeError a
\* validator threw; legacy: the result object, its parsing catches
FacetsOf(impl, resp) ==
  LET riskyTerms == validateRiskyTerms(parseJSONResponse(resp.riskyTerms, JsonArr(<<>>)))
      governmentArticles ==
        validateGovernmentArticles(parseJSONResponse(resp.governmentArticles, JsonArr(<<>>)))
  IN IF impl = "langchain"
     THEN IF riskyTerms.kind = "throw" \/ governmentArticles.kind = "throw"
          THEN [kind |-> "throw", result |-> NoAnalysis]
          ELSE [kind |-> "ok",
                result |-> [simplifiedExplanation |-> Trim(resp.simplification),
                            riskyTerms |-> riskyTerms.items,
                            governmentArticles |-> governmentArticles.items]]
     ELSE [kind |-> "ok",
           result |-> [simplifiedExplanation |-> Trim(resp.simplification),
                       riskyTerms |-> LegacyRiskyTerms(resp.riskyTerms),
                       governmentArticles |-> LegacyArticles(resp.governmentArticles)]]

\* an analyzeClause request: the configuration it read, the implementation
\* it was routed to and every implementation called for it, the three
\* requests and their answers, how the call settled, the result it
\* returned, the history row, and the calls and notifications made
IdleAnalyze ==
  [pc |-> "idle", cfg |-> DefaultConfig, impl |-> "none", implCalls |-> <<>>,
   req |-> [f \in FacetNames |-> "idle"],
   resp |-> [simplification |-> <<>>, riskyTerms |-> ResponseOf("none", JsonArr(<<>>)),
             governmentArticles |-> ResponseOf("none", JsonArr(<<>>))],
   outcome |-> "none", error |-> "none", result |-> NoAnalysis,
   saved |-> "none", keyLookups |-> 0, modelCalls |-> 0, errorToasts |-> 0]

VARIABLES
  cache,     \* vectorStoreCache: the stored objects in Map insertion order,
             \* each under the key of the input it was built from
  builds,    \* createClauseVectorStore calls suspended in the build:
             \* how many for each (input, apiKey)
  nextId,    \* serial number of the next object built from a re-usable input
  fresh,     \* how many single-use clauses have been passed so far
  ret,       \* what the last settled createClauseVectorStore call delivered
  events,    \* rejected builds and cache clears so far
  rq,        \* the retrieveRelevantContext call: its arguments and position
  rr,        \* the value that call returned
  storedChunks, \* the chunks array of the VectorStoreData object built from
             \* each input, as it is now
  apiConfig, \* the module variable apiConfig of the wrapper
  stored,    \* localStorage item 'clause-clarity-api-config'
  creds,     \* what getGeminiApiKey resolves to
  updates,   \* updateAPIConfig calls so far
  fu,        \* the submitFollowupQuestion request of the wrapper
  bt,        \* the processBatchClauses request of the wrapper
  an,        \* the analyzeClause request of the wrapper
  val        \* a call of one of the validators

createVars == <<cache, builds, nextId, fresh, ret, events>>
retrieveVars == <<rq, rr, storedChunks>>
configVars == <<apiConfig, stored, creds, updates>>
requestVars == <<fu, bt>>
analysisVars == <<an, val>>
vars ==
  <<cache, builds, nextId, fresh, ret, events, rq, rr, storedChunks, apiConfig, stored, creds,
    updates, fu, bt, an, val>>

BuildSlots == Inputs \X {UserKey, EmptyKey}

RECURSIVE SumBuilds(_, _)
SumBuilds(b, S) ==
  IF S = {} THEN 0
  ELSE LET x == CHOOSE x \in S : TRUE IN b[x] + SumBuilds(b, S \ {x})

InFlight == SumBuilds(builds, BuildSlots)

\* vectorStoreCache.has(key)
CacheHas(key) == \E n \in 1..Len(cache) : KeyOf(cache[n].src) = key

\* vectorStoreCache.get(key), for a key the cache has
CacheGet(key) == cache[CHOOSE n \in 1..Len(cache) : KeyOf(cache[n].src) = key]

\* a Map that adds an entry also for a key it holds
CacheSetAppending(c, key, h) == Append(c, h)

\* Map.prototype.set: a present key keeps its place, a new key goes last
CacheSet(c, key, h) ==
  IF \E n \in 1..Len(c) : KeyOf(c[n].src) = key
  THEN [n \in 1..Len(c) |-> IF KeyOf(c[n].src) = key THEN h ELSE c[n]]
  ELSE Append(c, h)

\* the limit tested one entry too late
CacheLimitLate(c) == IF Len(c) > MaxCacheSize + 1 THEN Tail(c) ELSE c

\* the last key of the Map dropped instead of the first
CacheLimitDropNewest(c) == IF Len(c) > MaxCacheSize THEN SubSeq(c, 1, Len(c) - 1) ELSE c

\* "Limit cache size": drop the first key of the Map when it holds more
\* than MaxCacheSize entries
CacheLimit(c) == IF Len(c) > MaxCacheSize THEN Tail(c) ELSE c

\* Objects built from a re-usable input carry a serial number; a single-use
\* clause is built at most once, its object is told apart by the input
NewHandle(i, k) == [src |-> i, id |-> IF i \in SpecialInputs THEN nextId ELSE 0, key |-> k]

\* the localStorage item found at start-up: nothing, text that does not
\* parse, or a configuration saved before enableSemanticSearch existed
InitialItems ==
  {NoItem, CorruptItem}
    \cup {Item([useLangChain |-> a, enableBatchProcessing |-> b, enableAdvancedPrompts |-> TRUE]) :
            a \in BOOLEAN, b \in BOOLEAN}

InitCreate ==
  /\ cache = <<>>
  /\ builds = [x \in BuildSlots |-> 0]
  /\ nextId = 1
  /\ fresh = 0
  /\ ret = NoRet
  /\ events = 0
  /\ rq = IdleRetrieve
  /\ rr = NoResult
  /\ storedChunks = ChunksTable
  /\ updates = 0
  /\ fu = IdleFollowup
  /\ bt = IdleBatch
  /\ an = IdleAnalyze

\* start-up of the library modules alone: no stored configuration, a key
Init ==
  /\ InitCreate
  /\ val = IdleVal
  /\ apiConfig = DefaultConfig
  /\ stored = NoItem
  /\ creds = UserKey

\* start-up of the application: whatever localStorage and the key store hold
InitApp ==
  /\ InitCreate
  /\ val = IdleVal
  /\ apiConfig = DefaultConfig
  /\ stored \in InitialItems
  /\ creds \in {NoKey, UserKey}

(* ---- retrieveRelevantContext as a process ---- *)
QuestionEmbedCall(h) == [svc |-> "embed", key |-> h.key, ctx |-> "question"]
DocumentsEmbedCall(k) == [svc |-> "embed", key |-> k, ctx |-> "documents"]
ModelCall(k, ctx) == [svc |-> "model", key |-> k, ctx |-> ctx]

\* the call up to the await of similaritySearchWithScore
RetrieveCall(h, maxResults, threshold, meta, owner) ==
  [pc |-> "search", h |-> h,
   maxResults |-> OptOr(maxResults, DefaultMaxResults),
   threshold |-> OptOr(threshold, DefaultThreshold),
   meta |-> meta, owner |-> owner, kept |-> <<>>]

\* submitEnhancedFollowupQuestion after createClauseVectorStore returned h:
\* it calls retrieveRelevantContext with its fixed options
FollowupRetrieve(f, h) ==
  [f EXCEPT !.pc = "sem_retrieve", !.calls = Append(@, QuestionEmbedCall(h))]

\* submitEnhancedFollowupQuestion after retrieveRelevantContext returned r:
\* the chain is invoked with the context summary
FollowupInvoke(f, r) ==
  [f EXCEPT !.pc = "sem_model", !.calls = Append(@, ModelCall(EmptyKey, "retrieved"))]

\* the catch block of submitEnhancedFollowupQuestion
FollowupEnhancedFailed(f) ==
  [f EXCEPT !.pc = "done",
            !.result = [kind |-> "error", error |-> "enhanced_followup_failed",
                        contextMetrics |-> NoMetrics]]

OwnsBuild(i, k) == k = EmptyKey /\ fu.pc = "sem_create" /\ fu.input = i

(* ---- createClauseVectorStore ---- *)
\* the call without the cache lookup
CreateBeginNoLookup(i, k) ==
  IF ThrowsTable[i]
  THEN /\ ret' = [kind |-> "error", input |-> i, h |-> NoHandle, embeds |-> 0]
       /\ UNCHANGED <<cache, builds>>
  ELSE /\ builds' = [builds EXCEPT ![<<i, k>>] = @ + 1]
       /\ UNCHANGED <<cache, ret>>

\* createClauseVectorStore(input i, apiKey k) up to its first await: key
\* generation, cache lookup, and on a miss the start of a build
CreateBegin(i, k) ==
  IF ThrowsTable[i]
  THEN /\ ret' = [kind |-> "error", input |-> i, h |-> NoHandle, embeds |-> 0]
       /\ UNCHANGED <<cache, builds>>
  ELSE IF CacheHas(KeyOf(i))
  THEN /\ ret' = [kind |-> "ok", input |-> i, h |-> CacheGet(KeyOf(i)), embeds |-> 0]
       /\ UNCHANGED <<cache, builds>>
  ELSE /\ builds' = [builds EXCEPT ![<<i, k>>] = @ + 1]
       /\ UNCHANGED <<cache, ret>>

\* the build resolves (splitText, MemoryVectorStore.fromDocuments): the
\* object is stored in the cache, the cache is limited, the object is
\* returned; a follow-up request waiting for it goes on to the retrieval
CreateDone(i, k) ==
  /\ builds[<<i, k>>] > 0
  /\ builds' = [builds EXCEPT ![<<i, k>>] = @ - 1]
  /\ cache' = CacheLimit(CacheSet(cache, KeyOf(i), NewHandle(i, k)))
  /\ nextId' = IF i \in SpecialInputs THEN nextId + 1 ELSE nextId
  /\ ret' = [kind |-> "ok", input |-> i, h |-> NewHandle(i, k), embeds |-> 1]
  /\ storedChunks' = [storedChunks EXCEPT ![i] = ChunksTable[i]]
  /\ IF OwnsBuild(i, k)
     THEN /\ fu' = FollowupRetrieve([fu EXCEPT !.calls = Append(@, DocumentsEmbedCall(k))],
                                     NewHandle(i, k))
          /\ rq' = RetrieveCall(NewHandle(i, k), FollowupMaxResults, FollowupThreshold, TRUE, "followup")
          /\ rr' = NoResult
     ELSE UNCHANGED <<fu, rq, rr>>

\* the object stored under its key before the build is awaited, so that a
\* rejected build leaves it in the cache
CreateThrowCaching(i, k) ==
  /\ builds[<<i, k>>] > 0
  /\ builds' = [builds EXCEPT ![<<i, k>>] = @ - 1]
  /\ cache' = CacheLimit(CacheSet(cache, KeyOf(i), NewHandle(i, k)))
  /\ ret' = [kind |-> "error", input |-> i, h |-> NoHandle, embeds |-> 1]
  /\ fu' = IF OwnsBuild(i, k)
           THEN FollowupEnhancedFailed([fu EXCEPT !.calls = Append(@, DocumentsEmbedCall(k))])
           ELSE fu
  /\ UNCHANGED <<nextId, rq, rr, storedChunks>>

\* the build rejects: the catch block rethrows, nothing is stored
CreateThrow(i, k) ==
  /\ builds[<<i, k>>] > 0
  /\ builds' = [builds EXCEPT ![<<i, k>>] = @ - 1]
  /\ ret' = [kind |-> "error", input |-> i, h |-> NoHandle, embeds |-> 1]
  /\ fu' = IF OwnsBuild(i, k)
           THEN FollowupEnhancedFailed([fu EXCEPT !.calls = Append(@, DocumentsEmbedCall(k))])
           ELSE fu
  /\ UNCHANGED <<cache, nextId, rq, rr, storedChunks>>

\* a caller passes one of the re-usable inputs
CreateSpecial ==
  \E i \in SpecialInputs :
    /\ InFlight < MaxInFlight
    /\ nextId <= MaxSpecialBuilds
    /\ CreateBegin(i, UserKey)
    /\ UNCHANGED <<analysisVars, nextId, fresh, events, retrieveVars, configVars, requestVars>>

\* a caller passes a clause never passed before
CreateFresh ==
  /\ fresh < NumFillers
  /\ InFlight < MaxInFlight
  /\ fresh' = fresh + 1
  /\ CreateBegin(NumSpecial + fresh + 1, UserKey)
  /\ UNCHANGED <<analysisVars, nextId, events, retrieveVars, configVars, requestVars>>

\* a caller that awaits every call before the next comes back to one of
\* two re-usable inputs
AwaitedCreateSpecial ==
  \E i \in {1, 4} :
    /\ InFlight = 0
    /\ nextId <= MaxSpecialBuilds
    /\ CreateBegin(i, UserKey)
    /\ UNCHANGED <<analysisVars, nextId, fresh, events, retrieveVars, configVars, requestVars>>

\* the same caller passes a clause never passed before
AwaitedCreateFresh ==
  /\ fresh < NumFillers
  /\ InFlight = 0
  /\ fresh' = fresh + 1
  /\ CreateBegin(NumSpecial + fresh + 1, UserKey)
  /\ UNCHANGED <<analysisVars, nextId, events, retrieveVars, configVars, requestVars>>

CreateEmbedOk ==
  /\ \E x \in BuildSlots : CreateDone(x[1], x[2])
  /\ UNCHANGED <<analysisVars, fresh, events, configVars, bt>>

CreateEmbedFail ==
  /\ events < MaxEvents
  /\ events' = events + 1
  /\ \E x \in BuildSlots : CreateThrow(x[1], x[2])
  /\ UNCHANGED <<analysisVars, fresh, configVars, bt>>

\* clearVectorStoreCache
ClearCache ==
  /\ events < MaxEvents
  /\ events' = events + 1
  /\ cache' = <<>>
  /\ UNCHANGED <<analysisVars, builds, nextId, fresh, ret, retrieveVars, configVars, requestVars>>

(* ---- retrieveRelevantContext ---- *)
\* a caller passes an object built earlier and its options
RetrieveBegin ==
  /\ rq.pc # "search"
  /\ fu.pc \in {"idle", "done"}
  /\ \E i \in {j \in SpecialInputs \cup {EchoInput} : ~ThrowsTable[j]},
        m \in {Undef} \cup (0..MaxResultsBound),
        t \in {Undef} \cup Scores, meta \in BOOLEAN :
       rq' = RetrieveCall([src |-> i, id |-> 1, key |-> UserKey], m, t, meta, "user")
  /\ rr' = NoResult
  /\ UNCHANGED <<analysisVars, createVars, storedChunks, configVars, requestVars>>

\* the similarity query resolves with some scores, the same for stored
\* documents of the same text: the try block returns
RetrieveOk ==
  /\ rq.pc = "search"
  /\ LET chunks == storedChunks[rq.h.src]
     IN \E sc \in {s \in [1..Len(chunks) -> Scores] :
                     \A a, b \in 1..Len(chunks) :
                        chunks[a].content = chunks[b].content => s[a] = s[b]} :
          /\ rr' = RetrieveNormal(chunks, sc, rq.maxResults, rq.threshold, rq.meta)
          /\ storedChunks' =
               [storedChunks EXCEPT ![rq.h.src] = ChunksAfterMap(chunks, rr'.relevantChunks)]
          /\ rq' = [rq EXCEPT !.pc = "done",
                              !.kept = KeptResults(chunks, sc, rq.maxResults, rq.threshold)]
  /\ fu' = IF rq.owner = "followup" THEN FollowupInvoke(fu, rr') ELSE fu
  /\ UNCHANGED <<analysisVars, createVars, configVars, bt>>

\* the similarity query rejects: the catch block returns the fallback
RetrieveFail ==
  /\ rq.pc = "search"
  /\ rr' = RetrieveFallback(storedChunks[rq.h.src], rq.maxResults)
  /\ rq' = [rq EXCEPT !.pc = "done"]
  /\ fu' = IF rq.owner = "followup" THEN FollowupInvoke(fu, rr') ELSE fu
  /\ UNCHANGED <<analysisVars, createVars, storedChunks, configVars, bt>>

(* ---- the wrapper: configuration and follow-up questions ---- *)
\* updateAPIConfig with one toggle
UpdateAPIConfig ==
  /\ updates < MaxUpdates
  /\ updates' = updates + 1
  /\ \E f \in ConfigFields, b \in BOOLEAN :
       /\ apiConfig' = Spread(apiConfig, [x \in {f} |-> b])
       /\ stored' = Item(apiConfig')
  /\ UNCHANGED <<analysisVars, createVars, retrieveVars, creds, requestVars>>

\* loadAPIConfig called on its own (the settings dialog, getCurrentAPIInfo)
LoadAPIConfig ==
  /\ apiConfig' = loadAPIConfig(apiConfig, stored)
  /\ UNCHANGED <<analysisVars, createVars, retrieveVars, stored, creds, updates, requestVars>>

\* submitFollowupQuestion(question, clause, analysisData?) of the wrapper up
\* to the first await of the selected implementation; the retrieval of an
\* earlier request is over, its locals are gone
FollowupBegin ==
  /\ fu.pc \in {"idle", "done"}
  /\ rq.pc # "search"
  /\ InFlight = 0
  /\ \E i \in {1, 2, 5}, given \in BOOLEAN :
       LET cfg == loadAPIConfig(apiConfig, stored)
           path == SelectStrategy(cfg, given)
           f == [IdleFollowup EXCEPT !.input = i, !.hasAnalysisData = given,
                                     !.cfg = cfg, !.path = path]
       IN /\ apiConfig' = cfg
          /\ IF path = "semantic"
             THEN /\ CreateBegin(i, EmptyKey)
                  /\ IF ThrowsTable[i]
                     THEN /\ fu' = FollowupEnhancedFailed([f EXCEPT !.cacheAccess = FALSE])
                          /\ rq' = IdleRetrieve
                          /\ rr' = NoResult
                     ELSE IF CacheHas(KeyOf(i))
                     THEN /\ fu' = FollowupRetrieve([f EXCEPT !.cacheAccess = TRUE],
                                                     CacheGet(KeyOf(i)))
                          /\ rq' = RetrieveCall(CacheGet(KeyOf(i)), FollowupMaxResults,
                                                FollowupThreshold, TRUE, "followup")
                          /\ rr' = NoResult
                     ELSE /\ fu' = [f EXCEPT !.pc = "sem_create", !.cacheAccess = TRUE]
                          /\ rq' = IdleRetrieve
                          /\ rr' = NoResult
             ELSE /\ fu' = [f EXCEPT !.pc = IF path = "langchain" THEN "lc_key" ELSE "old_key",
                                     !.keyLookups = 1]
                  /\ rq' = IdleRetrieve
                  /\ rr' = NoResult
                  /\ UNCHANGED <<cache, builds, ret>>
  /\ UNCHANGED <<analysisVars, nextId, fresh, events, storedChunks, stored, creds, updates, bt>>

\* getGeminiApiKey resolves in the LangChain or the legacy implementation:
\* without a key toast.error, a throw and the toast.error of the catch
\* block, with a key the model is called
FollowupKey ==
  /\ fu.pc \in {"lc_key", "old_key"}
  /\ fu' = IF creds = NoKey
           THEN [fu EXCEPT !.pc = "done",
                           !.result = [kind |-> "error", error |-> "key_not_found",
                                       contextMetrics |-> NoMetrics],
                           !.errorToasts = @ + 2]
           ELSE [fu EXCEPT !.pc = IF fu.pc = "lc_key" THEN "lc_model" ELSE "old_model",
                           !.calls = Append(@, ModelCall(creds, "full_clause"))]
  /\ UNCHANGED <<analysisVars, createVars, retrieveVars, configVars, bt>>

\* the model call resolves: the answer is returned, with the retrieval
\* metrics on the semantic path
FollowupModelOk ==
  /\ fu.pc \in {"sem_model", "lc_model", "old_model"}
  /\ fu' = [fu EXCEPT !.pc = "done",
                      !.result =
                         [kind |-> "answer", error |-> "none",
                          contextMetrics |->
                            IF fu.pc = "sem_model"
                            THEN [present |-> TRUE, chunksUsed |-> Len(rr.relevantChunks),
                                  totalChunks |-> rr.totalChunks,
                                  averageRelevance |-> rr.averageRelevance]
                            ELSE NoMetrics]]
  /\ UNCHANGED <<analysisVars, createVars, retrieveVars, configVars, bt>>

\* the model call rejects: the catch block of the LangChain and of the
\* legacy implementation shows toast.error and rethrows, the one of
\* submitEnhancedFollowupQuestion logs and throws
FollowupModelFail ==
  /\ fu.pc \in {"sem_model", "lc_model", "old_model"}
  /\ fu' = IF fu.pc = "sem_model"
           THEN FollowupEnhancedFailed(fu)
           ELSE [fu EXCEPT !.pc = "done",
                           !.result = [kind |-> "error", error |-> "provider_error",
                                       contextMetrics |-> NoMetrics],
                           !.errorToasts = @ + 1]
  /\ UNCHANGED <<analysisVars, createVars, retrieveVars, configVars, bt>>

(* ---- the wrapper: batch analysis ---- *)
BatchSettled == bt.outcome # "pending" /\ bt.atKey = 0 /\ bt.atModel = 0

\* processBatchClauses(clauses) with n clauses: the configuration checks,
\* then analyzeBatchClauses up to the await of getGeminiApiKey
BatchBegin ==
  /\ BatchSettled
  /\ \E n \in {0, 1, BatchCeiling, BatchCeiling + 1} :
       LET cfg == loadAPIConfig(apiConfig, stored)
           b == [IdleBatch EXCEPT !.n = n, !.cfg = cfg]
       IN /\ apiConfig' = cfg
          /\ bt' = IF BatchGate(cfg) # "pass"
                   THEN [b EXCEPT !.pc = "done", !.outcome = "rejected", !.error = BatchGate(cfg)]
                   ELSE [b EXCEPT !.pc = "key", !.outcome = "pending", !.keyLookups = 1]
  /\ UNCHANGED <<analysisVars, createVars, retrieveVars, stored, creds, updates, fu>>

\* analyzeBatchClauses after getGeminiApiKey: without a key it rejects
\* with the toast.error of its catch block;
\* with a key analyzeClause is started for every clause, each suspended at
\* its own getGeminiApiKey
BatchKey ==
  /\ bt.pc = "key"
  /\ bt' = IF creds = NoKey
           THEN [bt EXCEPT !.pc = "done", !.outcome = "rejected", !.error = "key_not_found",
                           !.errorToasts = @ + 1]
           ELSE IF bt.n = 0
           THEN [bt EXCEPT !.pc = "done", !.outcome = "resolved"]
           ELSE [bt EXCEPT !.pc = "run", !.atKey = bt.n, !.keyLookups = @ + bt.n]
  /\ UNCHANGED <<analysisVars, createVars, retrieveVars, configVars, fu>>

\* analyzeClause of one clause after getGeminiApiKey: without a key it
\* throws, with a key the three chains are invoked
ClauseKey ==
  /\ bt.atKey > 0
  /\ bt' = IF creds = NoKey
           THEN [bt EXCEPT !.atKey = @ - 1, !.failed = @ + 1,
                           !.outcome = IF @ = "pending" THEN "rejected" ELSE @,
                           !.error = IF bt.outcome = "pending" THEN "key_not_found" ELSE @,
                           !.errorToasts = @ + 2 + (IF bt.outcome = "pending" THEN 1 ELSE 0),
                           !.pc = "done"]
           ELSE [bt EXCEPT !.atKey = @ - 1, !.atModel = @ + 1, !.modelCalls = @ + 3]
  /\ UNCHANGED <<analysisVars, createVars, retrieveVars, configVars, fu>>

\* the three model calls of one clause resolve: with a signed-in user its
\* analysis is inserted into chat_history, and it is returned; the batch
\* resolves with the last analysis
ClauseModelsOk ==
  /\ bt.atModel > 0
  /\ \E rows \in {0, 1} :
       bt' = [bt EXCEPT !.atModel = @ - 1, !.finished = @ + 1, !.historyRows = @ + rows,
                        !.outcome = IF @ = "pending" /\ bt.finished + 1 = bt.n THEN "resolved" ELSE @,
                        !.pc = IF bt.outcome = "pending" /\ bt.finished + 1 = bt.n THEN "done" ELSE @]
  /\ UNCHANGED <<analysisVars, createVars, retrieveVars, configVars, fu>>

\* a model call of one clause rejects: its analyzeClause shows toast.error
\* and rethrows; the first such failure rejects the batch, whose catch
\* block shows toast.error too
ClauseModelsFail ==
  /\ bt.atModel > 0
  /\ bt' = [bt EXCEPT !.atModel = @ - 1, !.failed = @ + 1,
                      !.outcome = IF @ = "pending" THEN "rejected" ELSE @,
                      !.error = IF bt.outcome = "pending" THEN "provider_error" ELSE @,
                      !.errorToasts = @ + 1 + (IF bt.outcome = "pending" THEN 1 ELSE 0),
                      !.pc = "done"]
  /\ UNCHANGED <<analysisVars, createVars, retrieveVars, configVars, fu>>

(* ---- the validators called on their own ---- *)
InitValidate ==
  /\ InitCreate
  /\ apiConfig = DefaultConfig
  /\ stored = NoItem
  /\ creds = UserKey
  /\ val \in ValidatorInputs

ValidateRiskyTerms ==
  /\ val.pc = "input"
  /\ val.fn = "risky"
  /\ val' = [val EXCEPT !.pc = "done", !.out = validateRiskyTerms(val.input)]
  /\ UNCHANGED <<createVars, retrieveVars, configVars, requestVars, an>>

ValidateGovernmentArticles ==
  /\ val.pc = "input"
  /\ val.fn = "articles"
  /\ val' = [val EXCEPT !.pc = "done", !.out = validateGovernmentArticles(val.input)]
  /\ UNCHANGED <<createVars, retrieveVars, configVars, requestVars, an>>

(* ---- parseJSONResponse called on its own ---- *)
\* the responses it is called with: every form of response around the
\* JSON text of an object and of the arrays of at most MaxItems elements
\* that are null, a risky term or a legal reference
InitParse ==
  /\ InitCreate
  /\ apiConfig = DefaultConfig
  /\ stored = NoItem
  /\ creds = UserKey
  /\ \E form \in {"clean", "fenced", "prose", "none", "broken_fence", "two_arrays"},
        doc \in {JsonOther("obj")}
                 \cup {JsonArr(l) :
                         l \in ListsUpTo({Primitive("null"),
                                          TermItem(JsStr(<<120>>), JsStr(SevHigh), JsStr(<<121>>)),
                                          TermItem(JsStr(<<122>>), JsNum(5), JsUndef),
                                          ArticleItem(JsStr(<<116>>), JsStr(GoodUrl), JsStr(<<114>>))},
                                         MaxItems)} :
       val = [pc |-> "input", fn |-> "parse", input |-> ResponseOf(form, doc),
              out |-> JsonOther("null")]

\* parseJSONResponse(response, []) as analyzeClause calls it
ParseJSONResponse ==
  /\ val.pc = "input"
  /\ val.fn = "parse"
  /\ val' = [val EXCEPT !.pc = "done", !.out = parseJSONResponse(val.input, JsonArr(<<>>))]
  /\ UNCHANGED <<createVars, retrieveVars, configVars, requestVars, an>>

(* ---- the chunk list of createClauseVectorStore on its own ---- *)
\* the clause and facets it is called with: a clause or the empty text, an
\* explanation or none, up to MaxItems risky terms and legal references,
\* among them items whose fields are empty
InitChunks ==
  /\ InitCreate
  /\ apiConfig = DefaultConfig
  /\ stored = NoItem
  /\ creds = UserKey
  /\ \E clause \in {<<99>>, <<>>}, explanation \in {<<101>>, <<>>},
        terms \in ListsUpTo({[term |-> <<116>>, severity |-> SevHigh, explanation |-> <<114>>],
                             [term |-> <<>>, severity |-> <<>>, explanation |-> <<>>]}, MaxItems),
        articles \in ListsUpTo({[title |-> <<84>>, url |-> GoodUrl, relevance |-> <<82>>],
                                [title |-> <<>>, url |-> <<>>, relevance |-> <<>>]}, MaxItems) :
       val = [pc |-> "input", fn |-> "chunks",
              input |-> [clause |-> clause,
                         facets |-> [simplifiedExplanation |-> explanation, riskyTerms |-> terms,
                                     governmentArticles |-> articles]],
              out |-> <<>>]

\* "Prepare all content for vectorization": the chunks array is filled
PrepareChunks ==
  /\ val.pc = "input"
  /\ val.fn = "chunks"
  /\ val' = [val EXCEPT !.pc = "done", !.out = BuildChunks(val.input.clause, val.input.facets)]
  /\ UNCHANGED <<createVars, retrieveVars, configVars, requestVars, an>>

(* ---- analyzeClause of the wrapper and of the two implementations ---- *)
\* the catch block of analyzeClause: toast.error, then the error is rethrown
AnalyzeFail(a, error) ==
  [a EXCEPT !.pc = "done", !.outcome = "rejected", !.error = error, !.errorToasts = @ + 1]

\* analyzeClause returns its result object
AnalyzeReturn(a, saved) == [a EXCEPT !.pc = "done", !.outcome = "resolved", !.saved = saved]

\* a request settled: when analyzeClause still awaits Promise.all and that
\* promise settles with it, the call goes on: a rejection goes to the catch
\* block, otherwise the facets are made of the three answers and
\* supabase.auth.getUser() is awaited
AnalyzeSettle(a) ==
  LET out == FacetsOf(a.impl, a.resp)
  IN IF a.pc # "facets" \/ PromiseAll(a.req) = "pending" THEN a
     ELSE IF PromiseAll(a.req) = "rejected" THEN AnalyzeFail(a, "provider_error")
     ELSE IF out.kind = "throw" THEN AnalyzeFail(a, "type_error")
     ELSE [a EXCEPT !.pc = "user", !.result = out.result]

\* analyzeClause(clause) of the wrapper up to the await of getGeminiApiKey
\* in the implementation it selects; one request at a time, the requests
\* of the one before have settled
AnalyzeBegin ==
  /\ an.pc \in {"idle", "done"}
  /\ \A f \in FacetNames : an.req[f] # "pending"
  /\ LET cfg == loadAPIConfig(apiConfig, stored)
         impl == IF cfg.useLangChain THEN "langchain" ELSE "legacy"
     IN /\ apiConfig' = cfg
        /\ an' = [IdleAnalyze EXCEPT !.pc = "key", !.cfg = cfg, !.impl = impl,
                                     !.implCalls = <<impl>>, !.outcome = "pending",
                                     !.keyLookups = 1]
  /\ UNCHANGED <<createVars, retrieveVars, stored, creds, updates, requestVars, val>>

\* getGeminiApiKey resolves: without a key toast.error and a throw into the
\* catch block, with a key the three requests are issued and Promise.all
\* is awaited
AnalyzeKey ==
  /\ an.pc = "key"
  /\ an' = IF creds = NoKey
           THEN AnalyzeFail([an EXCEPT !.errorToasts = @ + 1], "key_not_found")
           ELSE [an EXCEPT !.pc = "facets", !.req = [f \in FacetNames |-> "pending"],
                           !.modelCalls = 3]
  /\ UNCHANGED <<createVars, retrieveVars, configVars, requestVars, val>>

\* one of the requests settles: the model answers it or it fails; the
\* answer of a request whose analysis is over is dropped
FacetSettle ==
  /\ \E f \in FacetNames :
       /\ an.req[f] = "pending"
       /\ \/ \E text \in ResponsesTo(f) :
               an' = AnalyzeSettle([an EXCEPT !.req[f] = "resolved",
                                              !.resp[f] = IF an.pc = "facets" THEN text ELSE @])
          \/ an' = AnalyzeSettle([an EXCEPT !.req[f] = "rejected"])
  /\ UNCHANGED <<createVars, retrieveVars, configVars, requestVars, val>>

\* supabase.auth.getUser() settles: with a user the history row is
\* inserted, without one analyzeClause returns; the await is outside the
\* inner try, a rejection goes to the catch block of analyzeClause
UserSettle ==
  /\ an.pc = "user"
  /\ \E got \in {"user", "nobody", "rejected"} :
       an' = CASE got = "user" -> [an EXCEPT !.pc = "insert"]
               [] got = "nobody" -> AnalyzeReturn(an, "none")
               [] got = "rejected" -> AnalyzeFail(an, "persistence_error")
  /\ UNCHANGED <<createVars, retrieveVars, configVars, requestVars, val>>

\* the insert into chat_history settles: a rejection is logged by the
\* inner catch, analyzeClause returns either way
InsertSettle ==
  /\ an.pc = "insert"
  /\ \E saved \in {"saved", "failed"} : an' = AnalyzeReturn(an, saved)
  /\ UNCHANGED <<createVars, retrieveVars, configVars, requestVars, val>>

(* ---- specifications ---- *)
\* the cache under direct calls with the re-usable inputs
NextCache ==
  \/ CreateSpecial
  \/ CreateEmbedOk
  \/ CreateEmbedFail
  \/ ClearCache

SpecCache == Init /\ [][NextCache]_vars

\* the cache filled with ever new clauses
NextEvict ==
  \/ CreateFresh
  \/ CreateEmbedOk
  \/ CreateEmbedFail
  \/ ClearCache

SpecEvict == Init /\ [][NextEvict]_vars

\* one caller, one call at a time, coming back to clauses passed before
NextOrder ==
  \/ AwaitedCreateSpecial
  \/ AwaitedCreateFresh
  \/ CreateEmbedOk

SpecOrder == Init /\ [][NextOrder]_vars

\* the retriever called directly
NextRetrieve ==
  \/ RetrieveBegin
  \/ RetrieveOk
  \/ RetrieveFail

SpecRetrieve == Init /\ [][NextRetrieve]_vars

\* follow-up questions through the wrapper
NextFollowup ==
  \/ UpdateAPIConfig
  \/ FollowupBegin
  \/ FollowupKey
  \/ FollowupModelOk
  \/ FollowupModelFail
  \/ CreateEmbedOk
  \/ CreateEmbedFail
  \/ RetrieveOk
  \/ RetrieveFail

SpecFollowup == InitApp /\ [][NextFollowup]_vars

\* batches through the wrapper
NextBatch ==
  \/ UpdateAPIConfig
  \/ BatchBegin
  \/ BatchKey
  \/ ClauseKey
  \/ ClauseModelsOk
  \/ ClauseModelsFail

SpecBatch == InitApp /\ [][NextBatch]_vars

\* the validators applied to the arrays of the model
NextValidate ==
  \/ ValidateRiskyTerms
  \/ ValidateGovernmentArticles

SpecValidate == InitValidate /\ [][NextValidate]_vars

\* the chunk list assembled for the clauses and facets of the model
SpecChunks == InitChunks /\ [][PrepareChunks]_vars

\* parseJSONResponse applied to the responses of the model
SpecParse == InitParse /\ [][ParseJSONResponse]_vars

\* analyzeClause through the wrapper
NextAnalyze ==
  \/ AnalyzeBegin
  \/ AnalyzeKey
  \/ FacetSettle
  \/ UserSettle
  \/ InsertSettle

SpecAnalyze == InitApp /\ [][NextAnalyze]_vars

\* the configuration and the entry of the three wrapper functions
SpecConfig ==
  InitApp /\ [][UpdateAPIConfig \/ LoadAPIConfig \/ AnalyzeBegin \/ FollowupBegin \/ BatchBegin]_vars

(* ------------------------------ claims --------------------------------- *)
ModelCallsOf(f) == Cardinality({n \in 1..Len(f.calls) : f.calls[n].svc = "model"})
EmbedCallsOf(f) == Cardinality({n \in 1..Len(f.calls) : f.calls[n].svc = "embed"})
HoldsKeyOf(c, i) == \E n \in 1..Len(c) : KeyOf(c[n].src) = KeyOf(i)
EntryFor(c, i) == c[CHOOSE n \in 1..Len(c) : KeyOf(c[n].src) = KeyOf(i)]

\* C1: when the similarity query succeeds, retrieveRelevantContext returns
\* at most maxResults chunks, each with a score of at least
\* relevanceThreshold, in descending score order.
RetrieveTopKAboveThreshold ==
  rr.kind = "ok" =>
    /\ Len(rr.relevantChunks) <= rq.maxResults
    /\ \A n \in 1..Len(rr.relevantChunks) : rr.relevantChunks[n].relevanceScore >= rq.threshold
    /\ \A n, m \in 1..Len(rr.relevantChunks) :
         n < m => rr.relevantChunks[n].relevanceScore >= rr.relevantChunks[m].relevanceScore

\* a successful retrieval that cut the candidates down to maxResults chunks
\* of different scores
RetrieveTopKWitness ==
  /\ rr.kind = "ok"
  /\ Len(rr.relevantChunks) = rq.maxResults
  /\ rq.maxResults >= 2
  /\ rr.totalChunks > rq.maxResults
  /\ rr.relevantChunks[1].relevanceScore > rr.relevantChunks[2].relevanceScore
  /\ rr.relevantChunks[2].relevanceScore = rq.threshold

\* C2: when the similarity query fails, retrieveRelevantContext returns (it
\* does not throw) the first min(maxResults, number of chunks) chunks of the
\* full chunk list in their original order, with averageRelevance 0.
RetrieveFallbackFirstChunks ==
  /\ rq.pc = "done" => rr.kind \in {"ok", "fallback"}
  /\ rr.kind = "fallback" =>
       /\ Len(rr.relevantChunks) = Min(rq.maxResults, Len(ChunksOf(rq.h)))
       /\ \A n \in 1..Len(rr.relevantChunks) : rr.relevantChunks[n] = ChunksOf(rq.h)[n]
       /\ rr.averageRelevance = ZeroAverage

\* a fallback that returned fewer chunks than the index holds
RetrieveFallbackWitness ==
  /\ rr.kind = "fallback"
  /\ rq.maxResults >= 1
  /\ Len(rr.relevantChunks) = rq.maxResults
  /\ rr.totalChunks > rq.maxResults

\* C3: a createClauseVectorStore call made while the cache holds the entry
\* for its key starts no build (no chunking, no embedding call) and returns
\* the cached object, which is the very object the building call returned;
\* the cache is left as it is.
CachedCallReturnsCachedHandle ==
  [][ /\ \A x \in BuildSlots : builds'[x] > builds[x] => ~HoldsKeyOf(cache, x[1])
      /\ (builds' = builds /\ ret' # ret /\ ret'.kind = "ok") =>
            /\ HoldsKeyOf(cache, ret'.input)
            /\ ret'.h = EntryFor(cache, ret'.input)
            /\ ret'.embeds = 0
            /\ cache' = cache
      /\ (builds' # builds /\ ret'.kind = "ok" /\ ret' # ret) =>
            /\ HoldsKeyOf(cache', ret'.input)
            /\ EntryFor(cache', ret'.input) = ret'.h
            /\ ret'.embeds = 1
    ]_vars

\* a second call with the inputs of a completed call got the cached object
CachedCallWitness ==
  /\ ret.kind = "ok"
  /\ ret.embeds = 0
  /\ ret.h.src = ret.input
  /\ HoldsKeyOf(cache, ret.input)
  /\ EntryFor(cache, ret.input) = ret.h

\* C4: every object createClauseVectorStore returns was built from the
\* clause and facets passed to that call (so calls with different inputs
\* never share an object).
ReturnedHandleBuiltFromInput ==
  ret.kind = "ok" => SameInput(ret.h.src, ret.input)

\* C5: the cache holds at most MaxCacheSize entries whenever a call has
\* returned or is suspended at an await.
CacheBounded == Len(cache) <= MaxCacheSize

\* every single-use clause was built, none failed, nothing was cleared: the
\* cache is full and entries have been evicted
CacheBoundedWitness ==
  /\ Len(cache) = MaxCacheSize
  /\ fresh = NumFillers
  /\ events = 0
  /\ InFlight = 0
  /\ fresh > MaxCacheSize

\* C6 as stated: with enableSemanticSearch on and facets given the semantic
\* path is taken whatever the other toggles are.
SemanticWheneverEnabled ==
  (fu.pc # "idle" /\ fu.cfg.enableSemanticSearch /\ fu.hasAnalysisData) => fu.path = "semantic"

\* C6 amended: with useLangChain and enableSemanticSearch on and facets
\* given, the semantic path is taken whatever enableBatchProcessing and
\* enableAdvancedPrompts are: the index is built or reused, retrieval runs
\* with maxResults 3 and threshold 0.6, and an answer carries the metrics of
\* that retrieval.
SemanticWhenLangChainAndEnabled ==
  (fu.pc # "idle" /\ fu.cfg.useLangChain /\ fu.cfg.enableSemanticSearch /\ fu.hasAnalysisData) =>
    /\ fu.path = "semantic"
    /\ fu.pc \in {"sem_create", "sem_retrieve", "sem_model", "done"}
    /\ fu.pc = "sem_create" => builds[<<fu.input, EmptyKey>>] > 0
    /\ fu.pc \in {"sem_retrieve", "sem_model"} =>
         /\ rq.owner = "followup"
         /\ rq.maxResults = FollowupMaxResults
         /\ rq.threshold = FollowupThreshold
         /\ rq.meta
         /\ fu.cacheAccess
    /\ fu.pc = "sem_model" => Len(rr.relevantChunks) <= FollowupMaxResults
    /\ (fu.pc = "done" /\ fu.result.kind = "answer") =>
         /\ fu.result.contextMetrics.present
         /\ fu.result.contextMetrics.chunksUsed = Len(rr.relevantChunks)
         /\ fu.result.contextMetrics.totalChunks = rr.totalChunks
         /\ fu.result.contextMetrics.averageRelevance = rr.averageRelevance

\* the semantic path answered while enableBatchProcessing was off
SemanticPathWitness ==
  /\ fu.pc = "done"
  /\ fu.path = "semantic"
  /\ fu.result.kind = "answer"
  /\ fu.result.contextMetrics.present
  /\ ~fu.cfg.enableBatchProcessing

\* C7: with enableSemanticSearch off and useLangChain on, the follow-up is
\* answered by the LangChain implementation from the full clause text: no
\* build is started, the cache is not accessed, no embedding call is made,
\* with or without facets.
NoRetrievalWhenSemanticOff ==
  (fu.pc # "idle" /\ ~fu.cfg.enableSemanticSearch /\ fu.cfg.useLangChain) =>
    /\ fu.path = "langchain"
    /\ fu.pc \in {"lc_key", "lc_model", "done"}
    /\ ~fu.cacheAccess
    /\ EmbedCallsOf(fu) = 0
    /\ \A n \in 1..Len(fu.calls) : fu.calls[n].ctx = "full_clause"
    /\ fu.pc # "done" => (InFlight = 0 /\ rq.pc # "search")
    /\ fu.result.kind = "answer" => ModelCallsOf(fu) = 1

\* facets were supplied, semantic search was off, LangChain answered
NoRetrievalWitness ==
  /\ fu.pc = "done"
  /\ fu.hasAnalysisData
  /\ ~fu.cfg.enableSemanticSearch
  /\ fu.cfg.useLangChain
  /\ fu.result.kind = "answer"

BatchGatedByToggles ==
  bt.pc # "idle" =>
    /\ bt.keyLookups > 0 <=> (bt.cfg.useLangChain /\ bt.cfg.enableBatchProcessing)
    /\ bt.keyLookups = 0 =>
         /\ bt.outcome = "rejected"
         /\ bt.error \in {"only_with_langchain", "batch_disabled"}
         /\ bt.modelCalls = 0
    /\ bt.error = "only_with_langchain" => ~bt.cfg.useLangChain
    /\ bt.error = "batch_disabled" => (bt.cfg.useLangChain /\ ~bt.cfg.enableBatchProcessing)
    /\ bt.modelCalls > 0 => (bt.cfg.useLangChain /\ bt.cfg.enableBatchProcessing)

\* a non-empty batch was refused because enableBatchProcessing was off
BatchGateWitness ==
  /\ bt.pc = "done"
  /\ bt.n > 0
  /\ bt.error = "batch_disabled"
  /\ bt.cfg.useLangChain
  /\ bt.keyLookups = 0

\* C10: no model call is issued for a batch of more than BatchCeiling
\* clauses passed to processBatchClauses (it is rejected before).
OversizedBatchMakesNoModelCall ==
  bt.n > BatchCeiling => bt.modelCalls = 0

\* a property of an array element that has a non-empty value
\* C12: for every input list validateRiskyTerms returns exactly the items
\* that have term, severity and explanation, in input order, each with its
\* severity lower-cased when that is high, moderate or low and "moderate"
\* otherwise; items missing a field are dropped.
RiskyTermsValidated ==
  (val.pc = "done" /\ val.fn = "risky" /\ val.input.t = "arr") =>
    /\ val.out.kind = "ok"
    /\ LET Present(v) == (v.t = "str" /\ v.s # <<>>) \/ (v.t = "num" /\ v.n # 0)
           HasAll(x) == Present(x.term) /\ Present(x.severity) /\ Present(x.explanation)
           Expected(v) == IF v.t = "str" /\ ToLowerCase(v.s) \in Severities
                          THEN ToLowerCase(v.s) ELSE SevModerate
           expected == SelectSeq(val.input.items, HasAll)
       IN /\ Len(val.out.items) = Len(expected)
          /\ \A k \in 1..Len(expected) :
               val.out.items[k].severity = Expected(expected[k].severity)

\* C13: validateGovernmentArticles keeps an item if and only if title, url
\* and relevance are present and url is a well-formed absolute URL, and the
\* kept items carry the input title, url and relevance verbatim, in input
\* order.
ArticlesValidated ==
  (val.pc = "done" /\ val.fn = "articles" /\ val.input.t = "arr") =>
    /\ val.out.kind = "ok"
    /\ LET Present(v) == (v.t = "str" /\ v.s # <<>>) \/ (v.t = "num" /\ v.n # 0)
           WellFormed(x) ==
             /\ Present(x.title) /\ Present(x.url) /\ Present(x.relevance)
             /\ x.url.t = "str" /\ UrlParses(x.url.s)
           expected == SelectSeq(val.input.items, WellFormed)
       IN /\ Len(val.out.items) = Len(expected)
          /\ \A k \in 1..Len(expected) :
               /\ JsStr(val.out.items[k].title) = expected[k].title
               /\ JsStr(val.out.items[k].url) = expected[k].url
               /\ JsStr(val.out.items[k].relevance) = expected[k].relevance


(* ---- the analysis facets ---- *)
\* C11: in the LangChain analyzeClause, when all three model calls returned
\* a string the call does not throw whatever the strings contain: a
\* response that cannot be parsed or is of the wrong shape only empties its
\* own list, the explanation is the trimmed answer and each list is made
\* of its own response alone
MalformedFacetNeverThrows ==
  (an.impl = "langchain" /\ \A f \in FacetNames : an.req[f] = "resolved") =>
     LET Alone(f) == FacetsOf("langchain", [IdleAnalyze.resp EXCEPT ![f] = an.resp[f]]).result[f]
     IN /\ an.error # "type_error"
        /\ an.result.simplifiedExplanation = Trim(an.resp.simplification)
        /\ an.result.riskyTerms = Alone("riskyTerms")
        /\ an.result.governmentArticles = Alone("governmentArticles")

\* C14 as stated: the caller observes the outcome of analyzeClause, result
\* or failure, only after all three requests have settled, never while one
\* of them is still in flight
OutcomeOnlyAfterAllSettled ==
  an.outcome \in {"resolved", "rejected"} => \A f \in FacetNames : an.req[f] # "pending"

\* C14: the three requests are issued together, before any is awaited; a
\* result is observed only after all three have been fulfilled; a failure
\* of a request is observed as soon as it happens, whatever the others do
ResultAfterAllFailureAtFirst ==
  /\ (\E f \in FacetNames : an.req[f] # "idle") => (\A f \in FacetNames : an.req[f] # "idle")
  /\ an.outcome = "resolved" => \A f \in FacetNames : an.req[f] = "resolved"
  /\ an.pc = "facets" => an.outcome = "pending"
  /\ (\E f \in FacetNames : an.req[f] = "rejected") =>
        an.outcome = "rejected" /\ an.error = "provider_error"

\* a request failed while the other two were in flight: the caller has the
\* failure already
FailFastWitness ==
  /\ an.outcome = "rejected"
  /\ an.req["riskyTerms"] = "rejected"
  /\ an.req["simplification"] = "pending"
  /\ an.req["governmentArticles"] = "pending"

(* ---- persistence of an analysis ---- *)
\* C15: once the three facets have been computed, a failure in the lookup
\* of the signed-in user or in the insert of the history row does not make
\* analyzeClause fail, and the facets returned are the computed ones
PersistenceFailureAbsorbed ==
  (/\ \A f \in FacetNames : an.req[f] = "resolved"
   /\ FacetsOf(an.impl, an.resp).kind = "ok"
   /\ an.pc = "done") =>
     /\ an.outcome = "resolved"
     /\ an.result = FacetsOf(an.impl, an.resp).result

(* ---- failed builds ---- *)
\* C16: when createClauseVectorStore fails, in the key generation or in the
\* build, the caller gets the error and no object, and the call leaves the
\* cache as it is: nothing inserted, evicted or replaced; with no entry
\* under the key, a later call with the same inputs builds again
FailedBuildLeavesCache ==
  [][ (ret'.kind = "error" /\ (ret' # ret \/ \E x \in BuildSlots : builds'[x] < builds[x])) =>
         /\ cache' = cache
         /\ ret'.h = NoHandle
         /\ (ret'.embeds = 1 /\ ~HoldsKeyOf(cache, ret'.input)) =>
               ~HoldsKeyOf(cache', ret'.input)
    ]_vars

\* a build failed, its key is not in the cache, and a call with the same
\* inputs is building again
FreshBuildAfterFailure ==
  /\ ret.kind = "error"
  /\ ret.embeds = 1
  /\ events = 1
  /\ ~HoldsKeyOf(cache, ret.input)
  /\ InFlight = 1
  /\ builds[<<ret.input, UserKey>>] = 1

(* ---- error notifications ---- *)
\* C17: every failure that propagates out of analyzeClause, of
\* submitFollowupQuestion on any of its paths, or of analyzeBatchClauses has
\* produced exactly one error notification for the request, also without
\* credentials and for a failing clause inside a batch
OneNotificationPerFailure ==
  /\ an.outcome = "rejected" => an.errorToasts = 1
  /\ (fu.pc = "done" /\ fu.result.kind = "error") => fu.errorToasts = 1
  /\ (bt.outcome = "rejected" /\ bt.error \in {"key_not_found", "provider_error"}) =>
        bt.errorToasts = 1

(* ---- fallback ---- *)
\* C18: when the LangChain implementation of analyzeClause fails while
\* useLangChain is on (here: after it has called the model, so that a key
\* exists for the traditional implementation too), the wrapper calls the
\* traditional implementation for that request instead of failing it
FallsBackToTraditional ==
  (an.cfg.useLangChain /\ an.impl = "langchain" /\ an.modelCalls > 0 /\ an.error # "none") =>
     /\ \E k \in 1..Len(an.implCalls) : an.implCalls[k] = "legacy"
     /\ an.outcome # "rejected"

(* ---- eviction order ---- *)
\* C19: an insertion puts the new entry last; when it makes the cache hold
\* more than MaxCacheSize entries the entry removed is the first one, the
\* earliest inserted; a cache hit leaves the order as it is
EvictionInInsertionOrder ==
  [][ /\ ((\E x \in BuildSlots : builds'[x] < builds[x]) /\ ret'.kind = "ok"
            /\ ~HoldsKeyOf(cache, ret'.input)) =>
           cache' = IF Len(cache) = MaxCacheSize
                    THEN Append(Tail(cache), ret'.h)
                    ELSE Append(cache, ret'.h)
      /\ (builds' = builds /\ ret' # ret /\ ret'.kind = "ok") =>
           ret'.embeds = 0 /\ cache' = cache
    ]_vars

\* the call before was a hit on the oldest entry of a full cache: the entry
\* keeps the first place, and the build now in flight evicts it
ReadEntryIsNextEvicted ==
  /\ ret.kind = "ok"
  /\ ret.embeds = 0
  /\ Len(cache) = MaxCacheSize
  /\ cache[1] = ret.h
  /\ InFlight = 1

(* ---- concurrent builds of one key ---- *)
\* C20: calls for the same uncached key that interleave all miss and all
\* build; the cache never holds two entries under one key: a build that
\* resolves when the key is already there replaces the entry, and the
\* object it returns is not the one the earlier call stored and returned
ConcurrentBuildsOneEntry ==
  [][ /\ \A m, n \in 1..Len(cache') :
           m # n => KeyOf(cache'[m].src) # KeyOf(cache'[n].src)
      /\ \A x \in BuildSlots :
           (builds'[x] > builds[x] /\ builds[x] > 0) => ~HoldsKeyOf(cache, x[1])
      /\ ((\E x \in BuildSlots : builds'[x] < builds[x]) /\ ret'.kind = "ok"
            /\ HoldsKeyOf(cache, ret'.input)) =>
           /\ ret'.embeds = 1
           /\ ret'.h # EntryFor(cache, ret'.input)
           /\ EntryFor(cache', ret'.input) = ret'.h
           /\ Len(cache') = Len(cache)
    ]_vars

\* two calls for one key were suspended in the build together, both built:
\* two objects exist, the cache holds one entry, the object of the call
\* that resolved last
TwoBuildsOneEntryWitness ==
  /\ events = 0
  /\ InFlight = 0
  /\ nextId = 3
  /\ Len(cache) = 1
  /\ ret.kind = "ok"
  /\ ret.embeds = 1
  /\ ret.h.id = 2
  /\ cache[1] = ret.h
(* ---- a failing clause in a batch ---- *)
\* C21: analyzeBatchClauses starts the analysis of every clause before any
\* of them completes, and once the batch has rejected because a clause
\* failed, the analyses still in flight are aborted: no model call, no
\* history row and no error notification is made for them any more
BatchFailureAbortsRest ==
  [][ /\ (bt.pc = "key" /\ bt'.pc = "run") => (bt'.atKey = bt.n /\ bt'.finished = 0)
      /\ (bt.outcome = "rejected" /\ bt.atKey + bt.atModel > 0) =>
            /\ bt'.modelCalls = bt.modelCalls
            /\ bt'.historyRows = bt.historyRows
            /\ bt'.errorToasts = bt.errorToasts
    ]_vars

(* ---- the parsing strategies ---- *)
\* C22: parseJSONResponse returns what the first of its strategies that
\* succeeds yields, in the order direct parse, array in a fenced block,
\* first array-like substring, and the fallback only when all three have
\* failed; a fenced block that is found but does not parse is followed by
\* the array-substring attempt
ParseTriesEveryStrategy ==
  (val.pc = "done" /\ val.fn = "parse") =>
     val.out = IF val.input.direct.m = "value" THEN val.input.direct.v
               ELSE IF val.input.block.m = "value" THEN val.input.block.v
               ELSE IF val.input.array.m = "value" THEN val.input.array.v
               ELSE JsonArr(<<>>)

(* ---- the chunk set ---- *)
\* C23: the chunk list has one chunk for each risky term and one for each
\* legal reference, in the order of the source list, with chunkIndex the
\* 0-based position of the item and the item's term (title) in its text;
\* explanation chunks exist only for a non-empty explanation; every chunk
\* has a non-empty text and one of the four categories
ChunkSetWellFormed ==
  (val.pc = "done" /\ val.fn = "chunks") =>
     LET f == val.input.facets
         OfType(t) == LET Is(c) == c.type = t IN SelectSeq(val.out, Is)
         risky == OfType("risky_terms")
         articles == OfType("government_articles")
     IN /\ Len(risky) = Len(f.riskyTerms)
        /\ \A k \in 1..Len(risky) :
             /\ risky[k].chunkIndex = k - 1
             /\ SubSeq(risky[k].content, 14, 13 + Len(f.riskyTerms[k].term)) = f.riskyTerms[k].term
        /\ Len(articles) = Len(f.governmentArticles)
        /\ \A k \in 1..Len(articles) :
             /\ articles[k].chunkIndex = k - 1
             /\ SubSeq(articles[k].content, 17, 16 + Len(f.governmentArticles[k].title))
                  = f.governmentArticles[k].title
        /\ Len(OfType("simplified")) > 0 => Len(f.simplifiedExplanation) > 0
        /\ \A n \in 1..Len(val.out) :
             /\ Len(val.out[n].content) > 0
             /\ val.out[n].type \in {"original", "simplified", "risky_terms", "government_articles"}
        /\ Len(val.out) = Len(OfType("original")) + Len(OfType("simplified")) + Len(risky) + Len(articles)

\* a chunk list made of a clause without explanation and two different
\* risky terms and legal references, one of each with empty fields
ChunkSetWitness ==
  /\ val.pc = "done"
  /\ val.fn = "chunks"
  /\ Len(val.out) = 5
  /\ Len(val.input.facets.riskyTerms) = 2
  /\ val.input.facets.riskyTerms[1].term = <<>>
  /\ val.input.facets.riskyTerms[2].term # <<>>
  /\ Len(val.input.facets.governmentArticles) = 2
  /\ val.input.facets.governmentArticles[1] # val.input.facets.governmentArticles[2]
  /\ val.out[4].chunkIndex = 0
  /\ val.out[5].chunkIndex = 1

(* ---- retrieval and the stored chunks ---- *)
\* C24: a retrieval, successful or not, leaves the cache and the stored
\* chunks as they are, same chunks in the same order; the scores are on
\* the returned chunks only, no stored chunk ever carries a relevanceScore
RetrievalLeavesIndex ==
  [][ (rq.pc = "search" /\ rq'.pc = "done") =>
         /\ cache' = cache
         /\ storedChunks' = storedChunks
         /\ \A i \in Inputs : \A n \in 1..Len(storedChunks'[i]) :
              "relevanceScore" \notin DOMAIN storedChunks'[i][n]
         /\ rr'.kind = "ok" =>
              \A n \in 1..Len(rr'.relevantChunks) :
                 "relevanceScore" \in DOMAIN rr'.relevantChunks[n]
    ]_vars

\* a later question on a cached entry got two scored chunks; the entry's
\* chunks are those that were built
LaterQuestionWitness ==
  /\ fu.pc = "sem_model"
  /\ ret.kind = "ok"
  /\ ret.embeds = 0
  /\ rq.h = ret.h
  /\ HoldsKeyOf(cache, fu.input)
  /\ rr.kind = "ok"
  /\ Len(rr.relevantChunks) = 2
  /\ storedChunks[rq.h.src] = ChunksOf(rq.h)

(* ---- the context summary ---- *)
\* C25: on the normal and on the fallback path the summary has one entry
\* for each returned chunk, in their order, numbered from 1, with the
\* chunk's category in upper case before the text when labels are asked
\* for, the entries separated by line breaks
SummaryListsReturnedChunks ==
  rr.kind \in {"ok", "fallback"} =>
     LET entries == [n \in 1..Len(rr.relevantChunks) |->
                       SummaryEntry(rr.relevantChunks[n], n - 1, rq.meta)]
     IN rr.contextSummary \in {Join(entries, <<10>>), Join(entries, <<10, 10>>)}

(* ---- the average relevance ---- *)
\* C26: averageRelevance is the sum of the returned scores divided by their
\* number and 0 when no chunk was kept; when a chunk was kept it lies
\* between the lowest and the highest returned score and is not below
\* relevanceThreshold
AverageWithinReturnedScores ==
  rr.kind = "ok" =>
    LET cs == rr.relevantChunks
        avg == rr.averageRelevance
        Leq(a, b) == a.hi < b.hi \/ (a.hi = b.hi /\ a.lo <= b.lo)
    IN /\ Len(cs) = 0 => avg = ZeroAverage
       /\ Len(cs) > 0 =>
            /\ avg = DblDiv(SumScores(cs), Len(cs))
            /\ \E n \in 1..Len(cs) : Leq(Dbl(cs[n].relevanceScore), avg)
            /\ \E n \in 1..Len(cs) : Leq(avg, Dbl(cs[n].relevanceScore))
            /\ Leq(Dbl(rq.threshold), avg)

\* C26, amended: the same for one or two returned chunks; with three or
\* more the average is outside the range of the returned scores, or below
\* the threshold, by less than n * 2^-52 (2n units) at most
AverageWithinRoundingOfScores ==
  rr.kind = "ok" =>
    LET cs == rr.relevantChunks
        avg == rr.averageRelevance
        slack == IF Len(cs) <= 2 THEN 0 ELSE 2 * Len(cs) - 1
        \* a <= b + slack units
        Leq(a, b) == IF a.hi = b.hi THEN a.lo <= b.lo + slack
                     ELSE IF a.hi = b.hi + 1 THEN a.lo + 134217728 <= b.lo + slack
                     ELSE a.hi < b.hi
    IN /\ Len(cs) = 0 => avg = ZeroAverage
       /\ Len(cs) > 0 =>
            /\ avg = DblDiv(SumScores(cs), Len(cs))
            /\ \E n \in 1..Len(cs) : Leq(Dbl(cs[n].relevanceScore), avg)
            /\ \E n \in 1..Len(cs) : Leq(avg, Dbl(cs[n].relevanceScore))
            /\ Leq(Dbl(rq.threshold), avg)

\* three chunks returned with the score 0.7 at the threshold 0.7, and an
\* average of 0.6999999999999998
AverageBelowThresholdWitness ==
  /\ rr.kind = "ok"
  /\ Len(rr.relevantChunks) = 3
  /\ rq.threshold = 7
  /\ \A n \in 1..3 : rr.relevantChunks[n].relevanceScore = 7
  /\ rr.averageRelevance = [hi |-> 46976204, lo |-> 107374181]

(* ---- the strategy configuration ---- *)
\* C27: updateAPIConfig leaves in localStorage the configuration it wrote;
\* from then on loadAPIConfig returns that configuration, toggle for
\* toggle, nothing but another update changes it, and every analyzeClause,
\* submitFollowupQuestion and processBatchClauses of the wrapper that
\* starts reads it and routes by its toggles
ConfigReadAtEveryCall ==
  [][ /\ updates' # updates =>
            /\ stored' = Item(apiConfig')
            /\ \E f \in ConfigFields : \A g \in ConfigFields \ {f} : apiConfig'[g] = apiConfig[g]
      /\ updates' > 0 => loadAPIConfig(apiConfig', stored') = apiConfig'
      /\ (updates > 0 /\ updates' = updates) => (apiConfig' = apiConfig /\ stored' = stored)
      /\ (updates > 0 /\ an' # an) =>
            /\ an'.cfg = apiConfig
            /\ an'.impl = IF apiConfig.useLangChain THEN "langchain" ELSE "legacy"
      /\ (updates > 0 /\ fu' # fu) =>
            /\ fu'.cfg = apiConfig
            /\ fu'.path = IF apiConfig.useLangChain /\ apiConfig.enableSemanticSearch
                                /\ fu'.hasAnalysisData THEN "semantic"
                          ELSE IF apiConfig.useLangChain THEN "langchain" ELSE "legacy"
      /\ (updates > 0 /\ bt' # bt) =>
            /\ bt'.cfg = apiConfig
            /\ bt'.outcome = "rejected"
                  <=> ~(apiConfig.useLangChain /\ apiConfig.enableBatchProcessing)
    ]_vars

\* semantic search switched off by an update, and a follow-up question with
\* analysis data that started afterwards and went to the LangChain
\* implementation
ConfigRoutedWitness ==
  /\ updates > 0
  /\ stored = Item(apiConfig)
  /\ ~apiConfig.enableSemanticSearch
  /\ fu.pc # "idle"
  /\ fu.hasAnalysisData
  /\ fu.cfg = apiConfig
  /\ fu.path = "langchain"

(* ---- the chunks behind the search results ---- *)
\* C28: on the normal path the n-th returned chunk has the category, the
\* source name and the chunkIndex of the stored chunk behind the n-th
\* search result that passed the filter
ReturnedChunkIsMatchedChunk ==
  rr.kind = "ok" =>
    /\ Len(rr.relevantChunks) = Len(rq.kept)
    /\ \A n \in 1..Len(rq.kept) :
         /\ rr.relevantChunks[n].type = rq.kept[n].metadata.type
         /\ rr.relevantChunks[n].source = rq.kept[n].metadata.source
         /\ rr.relevantChunks[n].chunkIndex = rq.kept[n].metadata.chunkIndex

(* ---- the API key of the provider calls ---- *)
\* C29: every embedding and model call made for a follow-up question
\* carries the key held by the key store, never an empty or absent one,
\* and a request made while the store holds no key ends with the
\* missing-key error without a provider call
ProviderCallsUseStoredKey ==
  /\ \A n \in 1..Len(fu.calls) :
        /\ fu.calls[n].key = creds
        /\ fu.calls[n].key \notin {EmptyKey, NoKey}
  /\ (creds = NoKey /\ fu.pc = "done") =>
        /\ fu.calls = <<>>
        /\ fu.result.kind = "error"
        /\ fu.result.error = "key_not_found"

(* ---- the validators applied twice ---- *)
\* C30: a validator applied to the list it returned returns that list
\* again, and every item of a returned list has all its fields non-empty
ValidatorsIdempotent ==
  (val.pc = "done" /\ val.fn \in {"risky", "articles"} /\ val.out.kind = "ok") =>
    LET items == val.out.items
        again ==
          IF val.fn = "risky"
          THEN validateRiskyTerms(
                 JsonArr([k \in 1..Len(items) |->
                            TermItem(JsStr(items[k].term), JsStr(items[k].severity),
                                     JsStr(items[k].explanation))]))
          ELSE validateGovernmentArticles(
                 JsonArr([k \in 1..Len(items) |->
                            ArticleItem(JsStr(items[k].title), JsStr(items[k].url),
                                        JsStr(items[k].relevance))]))
    IN /\ again = val.out
       /\ \A k \in 1..Len(items) : \A f \in DOMAIN items[k] : Len(items[k][f]) > 0
====
